---- MODULE Spec2Model ----
(***************************************************************************)
(* Model of the macrodata memory agent (src/src/mcp-agent.ts) and of the   *)
(* conversation log parser (src/plugins/local/src/conversations.ts).       *)
(*                                                                         *)
(* A text is a sequence of atoms: a literal of a template string is one    *)
(* atom, concatenation is \o, slice is SubSeq.  Identifiers are strings    *)
(* built by concatenation, as the code builds them.                        *)
(***************************************************************************)
EXTENDS Integers, Sequences, FiniteSets, TLC

\* ---------------------------------------------------------------- bounds
MaxThreads == 2      \* requests / scheduled runs in flight at once
MaxTime == 1         \* largest value of the millisecond clock
MaxJournal == 2      \* journal rows inserted in one behaviour
MaxSteps == 2        \* generation round trips taken in one run
MaxLimit == 2        \* largest limit passed to getRecentJournal
MaxSchedules == 1    \* schedule rows created in one behaviour of the agent
MaxCreations == 2    \* schedule rows created when only schedules are at work

\* ------------------------------------------------------- input alphabets
Absent == "<absent>"
StateTypes == {"topic"}
Names == {"nextjs", "next-js"}
Contents == {<<"Ship v2">>, <<"Ship v3">>}
Topics == {"git"}
JournalContents == {<<"Command: git commit -m fix">>}
TaskTypes == {"reflect"}
Descriptions == {"End of day review"}
ErrorMessages == {"model overloaded"}
ResultTexts == {<<"d", "o", "n", "e">>}
EmbeddingError == "Failed to generate embedding"
UpsertError == "vectorize upsert failed"

Min(a, b) == IF a < b THEN a ELSE b

\* ------------------------------------------------------------- variables
VARIABLES
    state_files,   \* table state_files: set of rows, PRIMARY KEY id
    journal,       \* table journal: set of rows, PRIMARY KEY id
    vectorize,     \* env.VECTORIZE: set of records, keyed by id
    schedules,     \* the agent's schedule table
    nanoids,       \* number of schedule ids drawn so far
    alarm,         \* the row whose callback alarm() is running, or NoRow
    fired,         \* history: the rows alarm() has called back, in order
    oneShots,      \* history: the ids of the rows schedule_once created
    listed,        \* what the latest list_schedules showed, or NotListed
    cancelOut,     \* what the latest cancel_schedule answered, or NoCancel
    now,           \* Date.now()
    uuids,         \* number of random identifiers drawn so far
    threads,       \* the asynchronous calls in flight, one record each
    written,       \* history: content of the latest saveState per (type, name)
    lastAppended,  \* history: id of the row saveJournal inserted last
    recent,        \* result of the latest getRecentJournal call
    recentN,       \* its limit
    recentFor,     \* history: lastAppended when that call ran
    \* parseConversationFile (conversations.ts)
    raw,           \* the lines of the log file, as split("\n") gives them
    phase,         \* "idle" | "read" | "loop" | "done"
    lines,         \* const lines: the non-empty lines
    pos,           \* the line the for loop is at
    currentUser,   \* let currentUser: the pending user message, or null
    exchanges,     \* const exchanges
    \* rebuildConversationIndex (conversations.ts)
    projects,      \* PROJECTS_DIR: the session logs, one per file
    convIndex,     \* the items of the conversation index, in file order
    rphase,        \* "idle" | "embed" | "index" | "done"
    allExchanges,  \* const allExchanges
    upserted,      \* let i of the indexing loop
    exchangeCount, \* what the latest rebuild returned; -1: it rejected
    rebuilds,      \* number of rebuilds started
    completed,     \* history: number of rebuilds that returned
    firstIndex,    \* history: the index when the first rebuild returned
    \* the macrodata tool of the local plugin (opencode/tools.ts)
    schedulesFile, \* <stateRoot>/.schedules.json
    remindOut,     \* what the latest remind call returned, or NoAnswer
    \* searchConversations (conversations.ts)
    similarity,    \* the raw score queryItems gives each item for the query
    candidates,    \* const results: what queryItems returned
    searchArgs,    \* the options of the latest search, or NoSearch
    searchOut,     \* what the latest search returned
    \* expandConversation (conversations.ts)
    sessionLog,    \* the file at sessionPath, or NoLog when there is none
    expandArgs,    \* the arguments of the latest call, or NoExpand
    expandOut,     \* what the latest call returned or threw
    \* decodeProjectPath in scanConversationFiles (conversations.ts)
    absPath,       \* the absolute path of the project a session ran in
    projectDir,    \* the name of its directory under PROJECTS_DIR
    decodedPath,   \* const projectPath of the scan, or NotDecoded
    projectName,   \* project: getProjectName(projectPath), or NotDecoded
    \* read_state and the external MCP tools (mcp-agent.ts)
    mcpsJson,      \* OAUTH_KV `user:${userId}:mcps`: the connected MCPs
    extOut,        \* what the latest of these tool calls returned or threw
    \* web_search, news_search and fetch_page (mcp-agent.ts)
    allowedUrls,   \* private allowedUrls: Set<string>
    returned,      \* history: the URLs the searches of this instance returned
    fetched,       \* history: the URLs fetchPageAsMarkdown was called with
    webOut,        \* what the latest web tool call returned
    webEnv,        \* env: is the Brave key set, are the Cloudflare ones
    \* inject_pending_context (macrodata-hook.sh)
    pendingContext, \* the file $PENDING_CONTEXT: the messages it holds
    hooks,         \* the prompt-submit hooks, each where it stands
    injected,      \* history: the messages each hook printed
    notified,      \* history: number of messages written to the file
    \* start_daemon (macrodata-hook.sh), ensureDaemonRunning (index.ts)
    pidFile,       \* the file $PIDFILE: <<pid>>, or <<>> when there is none
    daemons,       \* the daemon processes alive
    sessions,      \* the sessions starting, each where it stands
    pids,          \* number of processes launched so far
    launchedOver   \* history: processes launched while the PID file named a live one

schedVars == <<schedules, nanoids, alarm, fired, oneShots>>
toolVars == <<listed, cancelOut>>
convVars == <<raw, phase, lines, pos, currentUser, exchanges>>
indexVars == <<projects, convIndex, rphase, allExchanges, upserted,
               exchangeCount, rebuilds, completed, firstIndex>>
\* the state of the local plugin outside parseConversationFile
localVars == <<schedulesFile, remindOut>>
searchVars == <<similarity, candidates, searchArgs, searchOut>>
expandVars == <<sessionLog, expandArgs, expandOut>>
decodeVars == <<absPath, projectDir, decodedPath, projectName>>
externalVars == <<mcpsJson, extOut>>
webVars == <<allowedUrls, returned, fetched, webOut, webEnv>>
hookVars == <<pendingContext, hooks, injected, notified>>
daemonVars == <<pidFile, daemons, sessions, pids, launchedOver>>
hostVars == <<externalVars, webVars, hookVars, daemonVars>>
pluginVars == <<indexVars, localVars, searchVars, expandVars, decodeVars,
                hostVars>>
\* what no call of the agent but getRecentJournal writes
readVars == <<recent, recentN, recentFor, toolVars, convVars, pluginVars>>
agentVars == <<state_files, journal, vectorize, schedVars, now, uuids,
               threads, written, lastAppended, recent, recentN, recentFor,
               toolVars>>
\* what a rebuild of the index, and what the macrodata tool, leaves alone
outsideIndex == <<agentVars, convVars, localVars, searchVars, expandVars,
                  decodeVars, hostVars>>
outsideLocal == <<agentVars, convVars, indexVars, searchVars, expandVars,
                  decodeVars, hostVars>>
outsideSearch == <<agentVars, convVars, indexVars, localVars, expandVars,
                  decodeVars, hostVars>>
outsideExpand == <<agentVars, convVars, indexVars, localVars, searchVars,
                  decodeVars, hostVars>>

Keys == StateTypes \X Names
Slots == 1..MaxThreads

\* ------------------------------------------------------------ primary store
\* id = `state-${type}-${name}`
StateId_typeOnly(type, name) == "state-" \o type

StateId(type, name) == "state-" \o type \o "-" \o name

\* INSERT OR REPLACE INTO state_files: a row with the same PRIMARY KEY goes
InsertOrReplace(table, row) == {r \in table : r.id # row.id} \cup {row}

\* SELECT * FROM state_files WHERE type = ? AND name = ?  (the set of rows)
SelectState(type, name) == {r \in state_files : r.type = type /\ r.name = name}

\* getState: result[0] ?? null
NullRow == [id |-> Absent, type |-> Absent, name |-> Absent,
            content |-> <<>>, updated_at |-> -1]

getState(type, name) ==
    IF SelectState(type, name) = {} THEN NullRow
    ELSE CHOOSE r \in SelectState(type, name) : TRUE

\* id = `journal-${Date.now()}-${crypto.randomUUID().slice(0, 8)}`
JournalId(ms, uuid) == "journal-" \o ToString(ms) \o "-" \o ToString(uuid)

\* INSERT INTO journal: replaces the row of the same topic (a plausible slip)
InsertJournal_byTopic(table, row) ==
    {r \in table : r.topic # row.topic} \cup {row}

\* INSERT INTO journal (the id is fresh, the PRIMARY KEY never conflicts)
InsertJournal(table, row) == table \cup {row}

JournalRow(id, topic, content, intent, ts) ==
    [id |-> id, topic |-> topic, content |-> content,
     intent |-> intent, timestamp |-> ts]

\* ------------------------------------------------------------- vector index
\* the record saveState upserts: metadata {type, name, content, updatedAt}
StateVector(id, type, name, content, ts) ==
    [id |-> id, type |-> type, name |-> name, topic |-> Absent,
     content |-> content, intent |-> Absent, stamp |-> ts]

\* the record saveJournal upserts:
\* metadata {type: "journal", topic, content, intent: intent ?? "", timestamp}
JournalVector(id, topic, content, intent, ts) ==
    [id |-> id, type |-> "journal", name |-> Absent, topic |-> topic,
     content |-> content, intent |-> IF intent = "null" THEN "" ELSE intent,
     stamp |-> ts]

NoVector == [id |-> Absent, type |-> Absent, name |-> Absent, topic |-> Absent,
             content |-> <<>>, intent |-> Absent, stamp |-> -1]

\* VECTORIZE.upsert: drops the record instead of writing it
VectorUpsert_lost(index, rec) == index

\* VECTORIZE.upsert([rec]): insert, or overwrite the record of the same id
VectorUpsert(index, rec) == {v \in index : v.id # rec.id} \cup {rec}

\* ------------------------------------------------------------------ threads
NoData == [id |-> Absent, task |-> Absent, description |-> Absent]

\* the settled promise of a saveState / saveJournal call: it resolves when
\* neither await threw and rejects with the error of the one that did;
\* there is no try/catch in either function
SqlError == "SQLITE_FULL"

\* the error a save rejects with, as thrown: getEmbedding throws
\* new Error("Failed to generate embedding"), and what sql.exec, env.AI.run
\* or VECTORIZE.upsert throw passes through unchanged; no await of the save
\* functions is inside a try block
NoError == [name |-> Absent, message |-> Absent]

ErrorThrown(stage) ==
    CASE stage = "none" -> NoError
      [] stage = "sql" -> [name |-> "Error", message |-> SqlError]
      [] stage = "embed" -> [name |-> "Error", message |-> EmbeddingError]
      [] stage = "upsert" -> [name |-> "Error", message |-> UpsertError]

NoSave == [id |-> Absent, fail |-> "none", res |-> "none", error |-> NoError]

Settled_swallowed(id, stage) ==
    [id |-> id, fail |-> stage, res |-> "ok", error |-> NoError]

Settled(id, stage) ==
    [id |-> id, fail |-> stage,
     res |-> IF stage = "none" THEN "ok" ELSE "throw",
     error |-> ErrorThrown(stage)]

\* op: the entry point; pc: where the call is suspended; ctx: who awaits the
\* save in progress; rec: the vector record that save will upsert (captured
\* when the save began); sv: the save of this call that settled last;
\* out: how the entry point ended; steps: generation round trips so far;
\* data: the argument of runScheduledTask; genmsg: history, the message of
\* the error the generation loop threw; maxSteps: the maxSteps of the call's
\* runAgentTask; stop: why its generateText ended ("finish": an answer with
\* no tool call, "limit": stepCountIs, "error"); text: the text result of a
\* refine call, or the const result of a scheduled run
Idle == [op |-> "idle", pc |-> "idle", ctx |-> "none", rec |-> NoVector,
         sv |-> NoSave, out |-> "none", steps |-> 0, data |-> NoData,
         genmsg |-> Absent, maxSteps |-> 0, stop |-> "none", text |-> <<>>]

IsIdle(t) == threads[t].op = "idle"

NoRow == [id |-> Absent, type |-> Absent, payload |-> NoData]
NotListed == [text |-> Absent, entries |-> {}]
NoCancel == [id |-> Absent, text |-> <<>>, threw |-> FALSE, found |-> FALSE]

InitAgent ==
    /\ state_files = {}
    /\ journal = {}
    /\ vectorize = {}
    /\ schedules = {}
    /\ nanoids = 0
    /\ alarm = NoRow
    /\ fired = <<>>
    /\ oneShots = {}
    /\ listed = NotListed
    /\ cancelOut = NoCancel
    /\ now = 0
    /\ uuids = 0
    /\ threads = [t \in Slots |-> Idle]
    /\ written = [k \in Keys |-> <<>>]
    /\ lastAppended = Absent
    /\ recent = <<>>
    /\ recentN = 0
    /\ recentFor = Absent

\* the clock advances between any two steps, or does not
Tick ==
    /\ now < MaxTime
    /\ now' = now + 1
    /\ UNCHANGED <<state_files, journal, vectorize, schedVars, uuids, threads,
                   written, lastAppended, readVars>>

\* ------------------------------------------------- saveState / saveJournal
\* the part of saveState before its first await: the row is written
SaveStateSync(type, name, content) ==
    /\ state_files' = InsertOrReplace(state_files,
            [id |-> StateId(type, name), type |-> type, name |-> name,
             content |-> content, updated_at |-> now])
    /\ written' = [written EXCEPT ![<<type, name>>] = content]
    /\ UNCHANGED <<journal, uuids, lastAppended>>

\* the part of saveJournal before its first await: the row is inserted
SaveJournalSync(topic, content, intent) ==
    /\ uuids < MaxJournal
    /\ uuids' = uuids + 1
    /\ journal' = InsertJournal(journal,
            JournalRow(JournalId(now, uuids + 1), topic, content, intent, now))
    /\ lastAppended' = JournalId(now, uuids + 1)
    /\ UNCHANGED <<state_files, written>>

\* `scheduled-${data.task}` and `scheduled-${data.task}-error`
DoneTopic(task) == "scheduled-" \o task

ErrorTopic_asDone(task) == "scheduled-" \o task

ErrorTopic(task) == "scheduled-" \o task \o "-error"

\* String.prototype.slice(0, n)
Slice(text, n) == SubSeq(text, 1, Min(n, Len(text)))

SummaryCap == 500
DefaultMaxSteps == 10      \* maxSteps = 10
ScheduledMaxSteps == 15    \* maxSteps: 15

\* the completion entry with the whole result in it
DoneContent_untruncated(description, result) ==
    <<"Completed scheduled task: ", description, "\n\nSummary: ">> \o result

DoneContent(description, result) ==
    <<"Completed scheduled task: ", description, "\n\nSummary: ">>
        \o Slice(result, SummaryCap)

ErrorContent(description, msg) ==
    <<"Scheduled task failed: ", description, "\n\nError: ", msg>>

\* the catch block of runScheduledTask, up to the first await of its
\* saveJournal; gen tells whether the error came out of runAgentTask
Catch(t, msg, gen, s) ==
    LET d == threads[t].data
        topic == ErrorTopic(d.task)
        content == ErrorContent(d.description, msg)
    IN  /\ SaveJournalSync(topic, content, "null")
        /\ threads' = [threads EXCEPT ![t] =
               [@ EXCEPT !.pc = "embed", !.ctx = "catch",
                         !.rec = JournalVector(JournalId(now, uuids + 1),
                                               topic, content, "null", now),
                         !.sv = s,
                         !.genmsg = IF gen THEN msg ELSE @,
                         !.stop = IF gen THEN "error" ELSE @]]

\* runAgentTask has returned text: the try block goes on to its saveJournal,
\* up to the first await in it
Complete(t, text, s, n, reason) ==
    LET d == threads[t].data
        topic == DoneTopic(d.task)
        content == DoneContent(d.description, text)
    IN  /\ SaveJournalSync(topic, content, "null")
        /\ threads' = [threads EXCEPT ![t] =
               [@ EXCEPT !.pc = "embed", !.ctx = "try",
                         !.rec = JournalVector(JournalId(now, uuids + 1),
                                               topic, content, "null", now),
                         !.sv = s, !.steps = n, !.stop = reason,
                         !.text = text]]

\* the try block of the refine tool after runAgentTask: the text is returned
RefineReturns(t, text, s, n, reason) ==
    /\ threads' = [threads EXCEPT ![t] =
           [@ EXCEPT !.pc = "done", !.ctx = "none", !.sv = s, !.steps = n,
                     !.stop = reason, !.out = "ok",
                     !.text = <<"## Refinement: ", threads[t].data.task,
                                "\n\n">> \o text]]
    /\ UNCHANGED <<state_files, journal, uuids, written, lastAppended>>

\* the catch block of the refine tool: the message is returned as text
RefineCatches(t, msg, s) ==
    /\ threads' = [threads EXCEPT ![t] =
           [@ EXCEPT !.pc = "done", !.ctx = "none", !.sv = s,
                     !.stop = "error", !.out = "ok", !.genmsg = msg,
                     !.text = <<"Refinement error: ", msg>>]]
    /\ UNCHANGED <<state_files, journal, uuids, written, lastAppended>>

\* runAgentTask returns text to its caller / rejects with msg
TaskReturns(t, text, s, n, reason) ==
    IF threads[t].op = "refine" THEN RefineReturns(t, text, s, n, reason)
    ELSE Complete(t, text, s, n, reason)

TaskThrows(t, msg, s) ==
    IF threads[t].op = "refine" THEN RefineCatches(t, msg, s)
    ELSE Catch(t, msg, TRUE, s)

\* a tool call of the generation loop is over: generateText asks the model
\* again unless stepCountIs(maxSteps) stops it, and then it returns the text
\* it has
LoopGoesOn_limitThrows(t, s, n) ==
    \/ /\ n < threads[t].maxSteps
       /\ threads' = [threads EXCEPT ![t] =
              [@ EXCEPT !.pc = "gen", !.ctx = "none", !.sv = s, !.steps = n]]
       /\ UNCHANGED <<state_files, journal, uuids, written, lastAppended>>
    \/ /\ n >= threads[t].maxSteps
       /\ TaskThrows(t, "step limit reached", s)

LoopGoesOn(t, s, n) ==
    \/ /\ n < threads[t].maxSteps
       /\ threads' = [threads EXCEPT ![t] =
              [@ EXCEPT !.pc = "gen", !.ctx = "none", !.sv = s, !.steps = n]]
       /\ UNCHANGED <<state_files, journal, uuids, written, lastAppended>>
    \/ /\ n >= threads[t].maxSteps
       /\ \E text \in ResultTexts : TaskReturns(t, text, s, n, "limit")

\* the save a call awaits has settled as s (message msg when it rejected);
\* what happens next is up to the awaiting code
SaveSettles(t, s, msg) ==
    LET th == threads[t] IN
    \/ /\ th.ctx = "tool"                  \* MCP handler, no try/catch
       /\ threads' = [threads EXCEPT ![t] =
              [@ EXCEPT !.pc = "done", !.ctx = "none", !.sv = s,
                        !.out = s.res]]
       /\ UNCHANGED <<state_files, journal, uuids, written, lastAppended>>
    \/ /\ th.ctx = "agent"                 \* tool of the generation loop
       /\ \/ LoopGoesOn(t, s, th.steps)   \* the result, or the error, goes to the model
          \/ /\ s.res = "throw"    \* or generateText rejects with the error
             /\ TaskThrows(t, msg, s)
    \/ /\ th.ctx = "try"                   \* the completion entry
       /\ \/ /\ s.res = "ok"
             /\ threads' = [threads EXCEPT ![t] =
                    [@ EXCEPT !.pc = "done", !.ctx = "none", !.sv = s,
                              !.out = "ok"]]
             /\ UNCHANGED <<state_files, journal, uuids, written,
                            lastAppended>>
          \/ /\ s.res = "throw"
             /\ Catch(t, msg, FALSE, s)
    \/ /\ th.ctx = "catch"                 \* the error entry
       /\ threads' = [threads EXCEPT ![t] =
              [@ EXCEPT !.pc = "done", !.ctx = "none", !.sv = s,
                        !.out = s.res]]
       /\ UNCHANGED <<state_files, journal, uuids, written, lastAppended>>

\* getEmbedding returns a vector: the save goes on to VECTORIZE.upsert
EmbedOk(t) ==
    /\ threads[t].pc = "embed"
    /\ threads' = [threads EXCEPT ![t] = [@ EXCEPT !.pc = "upsert"]]
    /\ UNCHANGED <<state_files, journal, vectorize, schedVars, now, uuids,
                   written, lastAppended, readVars>>

\* env.AI.run rejects, or returns no data and getEmbedding throws
EmbedFail(t) ==
    /\ threads[t].pc = "embed"
    /\ SaveSettles(t, Settled(threads[t].rec.id, "embed"), EmbeddingError)
    /\ UNCHANGED <<vectorize, schedVars, now, readVars>>

\* VECTORIZE.upsert resolves: the record is in the index, the save returns
UpsertOk(t) ==
    /\ threads[t].pc = "upsert"
    /\ vectorize' = VectorUpsert(vectorize, threads[t].rec)
    /\ SaveSettles(t, Settled(threads[t].rec.id, "none"), Absent)
    /\ UNCHANGED <<schedVars, now, readVars>>

\* VECTORIZE.upsert rejects
UpsertFail(t) ==
    /\ threads[t].pc = "upsert"
    /\ SaveSettles(t, Settled(threads[t].rec.id, "upsert"), UpsertError)
    /\ UNCHANGED <<vectorize, schedVars, now, readVars>>

\* ------------------------------------------------------------ MCP tools
\* tool write_state: await this.saveState(type, name, content)
WriteState(t, type, name, content) ==
    /\ IsIdle(t)
    /\ SaveStateSync(type, name, content)
    /\ threads' = [threads EXCEPT ![t] =
           [Idle EXCEPT !.op = "write_state", !.pc = "embed", !.ctx = "tool",
                        !.rec = StateVector(StateId(type, name), type, name,
                                            content, now)]]
    /\ UNCHANGED <<vectorize, schedVars, now, readVars>>

\* tool write_state when sql.exec throws: no row is written, saveState
\* rejects before its first await and so does the handler
WriteStateSqlFails(t, type, name) ==
    /\ IsIdle(t)
    /\ threads' = [threads EXCEPT ![t] =
           [Idle EXCEPT !.op = "write_state", !.pc = "done",
                        !.sv = Settled(StateId(type, name), "sql"),
                        !.out = "throw"]]
    /\ UNCHANGED <<state_files, journal, vectorize, schedVars, now, uuids,
                   written, lastAppended, readVars>>

\* tool log_journal: await this.saveJournal(topic, content, intent)
LogJournal(t, topic, content, intent) ==
    /\ IsIdle(t)
    /\ SaveJournalSync(topic, content, intent)
    /\ threads' = [threads EXCEPT ![t] =
           [Idle EXCEPT !.op = "log_journal", !.pc = "embed", !.ctx = "tool",
                        !.rec = JournalVector(JournalId(now, uuids + 1), topic,
                                              content, intent, now)]]
    /\ UNCHANGED <<vectorize, schedVars, now, readVars>>

\* the handler has returned or thrown: the call is over
Retire(t) ==
    /\ threads[t].pc = "done"
    /\ threads' = [threads EXCEPT ![t] = Idle]
    /\ UNCHANGED <<state_files, journal, vectorize, schedVars, now, uuids,
                   written, lastAppended, readVars>>

\* ------------------------------------------------------ getRecentJournal
Range(f) == {f[i] : i \in DOMAIN f}

\* SELECT * FROM journal ORDER BY timestamp DESC LIMIT n: every answer SQL
\* allows; rows of equal timestamp come in any order
RecentResults(rows, n) ==
    LET k == Min(n, Cardinality(rows)) IN
    {s \in [1..k -> rows] :
        /\ \A i, j \in 1..k : i # j => s[i] # s[j]
        /\ \A i \in 1..(k - 1) : s[i].timestamp >= s[i + 1].timestamp
        /\ \A r \in rows \ Range(s) :
              \A i \in 1..k : r.timestamp <= s[i].timestamp}

\* getRecentJournal(n), as get_context calls it
GetRecentJournal(n) ==
    /\ recent' \in RecentResults(journal, n)
    /\ recentN' = n
    /\ recentFor' = lastAppended
    /\ UNCHANGED <<state_files, journal, vectorize, schedVars, now, uuids,
                   threads, written, lastAppended, toolVars, convVars,
                   pluginVars>>

\* ------------------------------------------------------------ schedule tools
\* this.schedule(when, "runScheduledTask", payload): the table gets a row
\* with an id of its own and the payload, the user-chosen id inside it
ScheduleRow(n, type, payload) ==
    [id |-> "sched-" \o ToString(n), type |-> type, payload |-> payload]

\* await this.schedule(when, "runScheduledTask", {id, task, description, ...})
\* of the tools schedule_recurring (type "cron") and schedule_once ("once")
Schedule(type, id, task, description) ==
    /\ nanoids' = nanoids + 1
    /\ schedules' = schedules \cup
          {ScheduleRow(nanoids + 1, type,
                       [id |-> id, task |-> task, description |-> description])}
    /\ UNCHANGED <<state_files, journal, vectorize, alarm, fired, now, uuids,
                   threads, written, lastAppended, readVars>>

ScheduleRecurring(id, task, description) ==
    /\ Schedule("cron", id, task, description)
    /\ UNCHANGED oneShots

\* schedule_once that passes a cron expression on
ScheduleOnce_asCron(id, task, description) ==
    /\ Schedule("cron", id, task, description)
    /\ oneShots' = oneShots \cup {ScheduleRow(nanoids + 1, "", NoData).id}

ScheduleOnce(id, task, description) ==
    /\ Schedule("once", id, task, description)
    /\ oneShots' = oneShots \cup {ScheduleRow(nanoids + 1, "", NoData).id}

\* tool cancel_schedule: await this.cancelSchedule(id) deletes the row of
\* that id, if there is one; the handler answers the same text either way
CancelSchedule(id) ==
    /\ schedules' = {r \in schedules : r.id # id}
    /\ cancelOut' = [id |-> id, text |-> <<"Cancelled schedule: ", id>>,
                     threw |-> FALSE,
                     found |-> \E r \in schedules : r.id = id]
    /\ UNCHANGED <<state_files, journal, vectorize, nanoids, alarm, fired,
                   oneShots, now, uuids, threads, written, lastAppended,
                   recent, recentN, recentFor, listed, convVars, pluginVars>>

\* payload?.description ?? payload?.task ?? "Unknown"
ListedDescription(payload) ==
    IF payload.description # Absent THEN payload.description
    ELSE IF payload.task # Absent THEN payload.task
    ELSE "Unknown"

\* tool list_schedules: one entry per row of getSchedules(), under s.id
ListSchedules ==
    /\ listed' =
          IF schedules = {} THEN [text |-> "No scheduled tasks.", entries |-> {}]
          ELSE [text |-> "## Scheduled Tasks",
                entries |-> {[id |-> r.id,
                              desc |-> ListedDescription(r.payload),
                              type |-> r.type] : r \in schedules}]
    /\ UNCHANGED <<state_files, journal, vectorize, schedVars, now, uuids,
                   threads, written, lastAppended, recent, recentN, recentFor,
                   cancelOut, convVars, pluginVars>>

\* --------------------------------------------------------- runScheduledTask
\* runScheduledTask that takes the row it runs out of the table
Fire_consuming(t, row) ==
    /\ IsIdle(t)
    /\ row \in schedules
    /\ alarm = NoRow
    /\ alarm' = row
    /\ fired' = Append(fired, row)
    /\ schedules' = schedules \ {row}
    /\ threads' = [threads EXCEPT ![t] =
           [Idle EXCEPT !.op = "run", !.pc = "gen", !.data = row.payload,
                        !.maxSteps = ScheduledMaxSteps]]
    /\ UNCHANGED <<state_files, journal, vectorize, nanoids, oneShots, now,
                   uuids, written, lastAppended, readVars>>

\* alarm() calls runScheduledTask(payload) for a row of the table, one row at
\* a time; the call builds the prompt and is suspended in generateText
Fire(t, row) ==
    /\ IsIdle(t)
    /\ row \in schedules
    /\ alarm = NoRow
    /\ alarm' = row
    /\ fired' = Append(fired, row)
    /\ threads' = [threads EXCEPT ![t] =
           [Idle EXCEPT !.op = "run", !.pc = "gen", !.data = row.payload,
                        !.maxSteps = ScheduledMaxSteps]]
    /\ UNCHANGED <<state_files, journal, vectorize, schedules, nanoids,
                   oneShots, now, uuids, written, lastAppended, readVars>>

\* alarm() after the callback has returned or thrown (it catches): the row
\* of a one-time schedule is deleted, the row of a cron schedule gets its
\* next time and stays
AlarmSettles ==
    /\ alarm # NoRow
    /\ \A t \in Slots : threads[t].op # "run"
    /\ schedules' = IF alarm.type = "once"
                    THEN {r \in schedules : r.id # alarm.id}
                    ELSE schedules
    /\ alarm' = NoRow
    /\ UNCHANGED <<state_files, journal, vectorize, nanoids, fired, oneShots,
                   now, uuids, threads, written, lastAppended, readVars>>

\* tool refine: runAgentTask with the default maxSteps; the call is
\* suspended in generateText
Refine(t, task) ==
    /\ IsIdle(t)
    /\ threads' = [threads EXCEPT ![t] =
           [Idle EXCEPT !.op = "refine", !.pc = "gen",
                        !.data = [NoData EXCEPT !.task = task],
                        !.maxSteps = DefaultMaxSteps]]
    /\ UNCHANGED <<state_files, journal, vectorize, schedVars, now, uuids,
                   written, lastAppended, readVars>>

InGeneration(t) ==
    threads[t].pc = "gen" /\ threads[t].steps < threads[t].maxSteps

\* the model calls the agent tool write_state
GenWriteState(t, type, name, content) ==
    /\ InGeneration(t)
    /\ SaveStateSync(type, name, content)
    /\ threads' = [threads EXCEPT ![t] =
           [@ EXCEPT !.pc = "embed", !.ctx = "agent", !.steps = @ + 1,
                     !.rec = StateVector(StateId(type, name), type, name,
                                         content, now)]]
    /\ UNCHANGED <<vectorize, schedVars, now, readVars>>

\* the model calls the agent tool log_journal (no intent)
GenLogJournal(t, topic, content) ==
    /\ InGeneration(t)
    /\ SaveJournalSync(topic, content, "null")
    /\ threads' = [threads EXCEPT ![t] =
           [@ EXCEPT !.pc = "embed", !.ctx = "agent", !.steps = @ + 1,
                     !.rec = JournalVector(JournalId(now, uuids + 1), topic,
                                           content, "null", now)]]
    /\ UNCHANGED <<vectorize, schedVars, now, readVars>>

\* the model calls read_state, list_topics, search_memory or web_search: the
\* tool reads, and its result or its error goes back to the model
GenReadOnly(t) ==
    /\ InGeneration(t)
    /\ LoopGoesOn(t, threads[t].sv, threads[t].steps + 1)
    /\ UNCHANGED <<vectorize, schedVars, now, readVars>>

\* the model answers with text and no tool call: runAgentTask returns it
GenFinish(t, text) ==
    /\ InGeneration(t)
    /\ TaskReturns(t, text, threads[t].sv, threads[t].steps + 1, "finish")
    /\ UNCHANGED <<vectorize, schedVars, now, readVars>>

\* generateText rejects (provider error): runAgentTask throws
GenThrows(t, msg) ==
    /\ InGeneration(t)
    /\ TaskThrows(t, msg, threads[t].sv)
    /\ UNCHANGED <<vectorize, schedVars, now, readVars>>

\* ==================================================== parseConversationFile
MaxLines == 3        \* lines of a log file

PromptCap == 1000
AssistantCap == 500

\* message.content: absent, a string, or an array of blocks
NoContent == [kind |-> "none", text |-> <<>>, blocks |-> <<>>]
StringContent(text) == [kind |-> "string", text |-> text, blocks |-> <<>>]
ArrayContent(blocks) == [kind |-> "array", text |-> <<>>, blocks |-> blocks]
Block(type, text) == [type |-> type, text |-> text]

\* a line of the file: blank, not JSON, or a record
\* (n, its number in the file, is no field of the record)
Line(shape, type, content, i) ==
    [shape |-> shape, type |-> type, content |-> content,
     uuid |-> "m" \o ToString(i), sessionId |-> "s1", n |-> i]

NullMsg == Line("null", Absent, NoContent, 0)

\* the kinds of line a log is made of; the text of line i is its own
LineKinds == {"user-string", "user-array", "user-empty", "assistant-string",
              "assistant-text-block", "assistant-tool-use", "assistant-empty",
              "snapshot", "malformed", "blank"}

TextOf(i) == <<"text " \o ToString(i)>>

LineOf(kind, i) ==
    CASE kind = "user-string" ->
            Line("json", "user", StringContent(TextOf(i)), i)
      [] kind = "user-array" ->
            Line("json", "user",
                 ArrayContent(<<Block("tool_result", TextOf(i))>>), i)
      [] kind = "user-empty" -> Line("json", "user", StringContent(<<>>), i)
      [] kind = "assistant-string" ->
            Line("json", "assistant", StringContent(TextOf(i)), i)
      [] kind = "assistant-text-block" ->
            Line("json", "assistant",
                 ArrayContent(<<Block("thinking", <<>>),
                                Block("text", TextOf(i))>>), i)
      [] kind = "assistant-tool-use" ->
            Line("json", "assistant",
                 ArrayContent(<<Block("tool_use", <<>>)>>), i)
      [] kind = "assistant-empty" -> Line("json", "assistant", NoContent, i)
      [] kind = "snapshot" ->
            Line("json", "file-history-snapshot", NoContent, i)
      [] kind = "malformed" -> Line("garbage", Absent, NoContent, i)
      [] OTHER -> Line("blank", Absent, NoContent, i)

Logs ==
    UNION {{[i \in 1..n |-> LineOf(ks[i], i)] : ks \in [1..n -> LineKinds]} :
           n \in 0..MaxLines}

\* a JavaScript value used as a condition
Truthy(content) ==
    \/ content.kind = "array"
    \/ content.kind = "string" /\ content.text # <<>>

\* extractAssistantText: the string, or the first text block with text, cut
\* to 500; "" when there is none
FirstTextBlock(blocks) ==
    LET hits == {i \in DOMAIN blocks :
                    blocks[i].type = "text" /\ blocks[i].text # <<>>}
    IN  IF hits = {} THEN 0 ELSE CHOOSE i \in hits : \A j \in hits : i <= j

extractAssistantText(content) ==
    IF content.kind = "string" THEN Slice(content.text, AssistantCap)
    ELSE IF FirstTextBlock(content.blocks) = 0 THEN <<>>
    ELSE Slice(content.blocks[FirstTextBlock(content.blocks)].text,
               AssistantCap)

\* a field of a record inside a template literal: undefined prints itself
Interpolate(field) == IF field = Absent THEN "undefined" ELSE field

\* the object pushed to exchanges, without the fields taken from the file
\* path (see Located)
Exchange(user, assistantText) ==
    [id |-> "conv-" \o Interpolate(user.sessionId) \o "-"
               \o Interpolate(user.uuid),
     userPrompt |-> Slice(user.content.text, PromptCap),
     assistantSummary |-> assistantText,
     sessionId |-> user.sessionId,
     messageUuid |-> IF user.uuid = Absent THEN "" ELSE user.uuid]

\* one turn of the for loop that keeps the first pending user message
ParseStep_keepFirst(cur, exs, msg) ==
    IF msg.shape # "json" THEN [currentUser |-> cur, exchanges |-> exs]
    ELSE IF msg.type = "user" /\ Truthy(msg.content)
    THEN [currentUser |-> IF cur = NullMsg THEN msg ELSE cur,
          exchanges |-> exs]
    ELSE IF msg.type = "assistant" /\ cur # NullMsg /\ Truthy(msg.content)
    THEN [currentUser |-> NullMsg,
          exchanges |-> Append(exs, Exchange(cur,
                                   extractAssistantText(msg.content)))]
    ELSE [currentUser |-> cur, exchanges |-> exs]

\* one turn of the for loop where a malformed line clears the pending user
\* message
ParseStep_dropPending(cur, exs, msg) ==
    IF msg.shape # "json" THEN [currentUser |-> NullMsg, exchanges |-> exs]
    ELSE IF msg.type = "user" /\ Truthy(msg.content)
    THEN [currentUser |-> msg, exchanges |-> exs]
    ELSE IF msg.type = "assistant" /\ cur # NullMsg /\ Truthy(msg.content)
    THEN LET userContent == IF cur.content.kind = "string"
                            THEN cur.content.text ELSE <<>>
             assistantText == extractAssistantText(msg.content)
         IN  [currentUser |-> NullMsg,
              exchanges |-> IF userContent # <<>> /\ assistantText # <<>>
                            THEN Append(exs, Exchange(cur, assistantText))
                            ELSE exs]
    ELSE [currentUser |-> cur, exchanges |-> exs]

\* one turn of the for loop: JSON.parse throws and the line is skipped, a
\* user message becomes the pending one, an assistant message is paired with
\* the pending one when both have text and clears it either way
ParseStep(cur, exs, msg) ==
    IF msg.shape # "json" THEN [currentUser |-> cur, exchanges |-> exs]
    ELSE IF msg.type = "user" /\ Truthy(msg.content)
    THEN [currentUser |-> msg, exchanges |-> exs]
    ELSE IF msg.type = "assistant" /\ cur # NullMsg /\ Truthy(msg.content)
    THEN LET userContent == IF cur.content.kind = "string"
                            THEN cur.content.text ELSE <<>>
             assistantText == extractAssistantText(msg.content)
         IN  [currentUser |-> NullMsg,
              exchanges |-> IF userContent # <<>> /\ assistantText # <<>>
                            THEN Append(exs, Exchange(cur, assistantText))
                            ELSE exs]
    ELSE [currentUser |-> cur, exchanges |-> exs]

\* no rebuild has run: no logs, an empty index
NoRebuild ==
    /\ projects = <<>>
    /\ convIndex = <<>>
    /\ rphase = "idle"
    /\ allExchanges = <<>>
    /\ upserted = 0
    /\ exchangeCount = -1
    /\ rebuilds = 0
    /\ completed = 0
    /\ firstIndex = <<>>

\* the schedule file as the tool finds it: not there, unreadable, or the
\* store it wrote
NoFile == [kind |-> "absent", schedules |-> <<>>]
CorruptFile == [kind |-> "corrupt", schedules |-> <<>>]
StoreFile(list) == [kind |-> "store", schedules |-> list]

NoAnswer == [success |-> FALSE, text |-> <<>>, id |-> Absent]

NoLocal ==
    /\ schedulesFile = NoFile
    /\ remindOut = NoAnswer

NoSearch == [currentProject |-> Absent, limit |-> 0, projectOnly |-> FALSE]

NoSearches ==
    /\ similarity = <<>>
    /\ candidates = <<>>
    /\ searchArgs = NoSearch
    /\ searchOut = <<>>

\* the file at sessionPath: none, or its lines
NoLog == [kind |-> "absent", lines |-> <<>>]
LogFile(ls) == [kind |-> "file", lines |-> ls]

NoExpand == [messageUuid |-> Absent, contextMessages |-> -1]
NoExpandOut == [threw |-> FALSE, messages |-> <<>>]

NoExpands ==
    /\ sessionLog = NoLog
    /\ expandArgs = NoExpand
    /\ expandOut = NoExpandOut

NotDecoded == <<"?">>

NoDecodes ==
    /\ absPath = <<>>
    /\ projectDir = <<>>
    /\ decodedPath = NotDecoded
    /\ projectName = NotDecoded

\* no external tool was called and no MCP is connected
NoResponse == [fetch |-> "none", status |-> 0, body |-> "",
               error |-> Absent, items |-> <<>>]
NoCall == [tool |-> "none", target |-> <<>>, kv |-> "none",
           response |-> NoResponse, threw |-> FALSE, text |-> <<>>]
NoKey == [present |-> FALSE, mcps |-> <<>>]

NoExternals ==
    /\ mcpsJson = NoKey
    /\ extOut = NoCall

\* a new agent instance: allowedUrls = new Set()
NoWebCall == [tool |-> "none", url |-> Absent, text |-> <<>>]

NoWeb ==
    /\ allowedUrls = {}
    /\ returned = {}
    /\ fetched = {}
    /\ webOut = NoWebCall
    /\ webEnv = [brave |-> TRUE, cf |-> TRUE]

\* no pending-context file and no hook in flight
NoHooks ==
    /\ pendingContext = <<>>
    /\ hooks = <<>>
    /\ injected = <<>>
    /\ notified = 0

\* no PID file, no daemon, no session starting
NoDaemons ==
    /\ pidFile = <<>>
    /\ daemons = {}
    /\ sessions = <<>>
    /\ pids = 0
    /\ launchedOver = {}

NoHost == NoExternals /\ NoWeb /\ NoHooks /\ NoDaemons

NoPlugin ==
    NoRebuild /\ NoLocal /\ NoSearches /\ NoExpands /\ NoDecodes /\ NoHost

\* no file is being parsed
NoParse ==
    /\ raw = <<>>
    /\ phase = "idle"
    /\ lines = <<>>
    /\ pos = 1
    /\ currentUser = NullMsg
    /\ exchanges = <<>>

\* parseConversationFile is called on a log file
InitConv ==
    /\ InitAgent
    /\ NoPlugin
    /\ raw \in Logs
    /\ phase = "read"
    /\ lines = <<>>
    /\ pos = 1
    /\ currentUser = NullMsg
    /\ exchanges = <<>>

IsNonBlank(l) == l.shape # "blank"

\* readFileSync, then content.trim().split("\n").filter(Boolean)
ReadFile ==
    /\ phase = "read"
    /\ phase' = "loop"
    /\ lines' = SelectSeq(raw, IsNonBlank)
    /\ UNCHANGED <<raw, pos, currentUser, exchanges, agentVars, pluginVars>>

\* readFileSync throws: the outer catch logs, the function returns []
ReadFileFails ==
    /\ phase = "read"
    /\ phase' = "done"
    /\ UNCHANGED <<raw, lines, pos, currentUser, exchanges, agentVars,
                   pluginVars>>

\* for (const line of lines)
ParseLine ==
    /\ phase = "loop"
    /\ pos <= Len(lines)
    /\ currentUser' = ParseStep(currentUser, exchanges, lines[pos]).currentUser
    /\ exchanges' = ParseStep(currentUser, exchanges, lines[pos]).exchanges
    /\ pos' = pos + 1
    /\ UNCHANGED <<raw, phase, lines, agentVars, pluginVars>>

\* return exchanges
ParseReturns ==
    /\ phase = "loop"
    /\ pos > Len(lines)
    /\ phase' = "done"
    /\ UNCHANGED <<raw, lines, pos, currentUser, exchanges, agentVars,
                   pluginVars>>

NextConv == ReadFile \/ ReadFileFails \/ ParseLine \/ ParseReturns


\* ================================================= rebuildConversationIndex
MaxFileLines == 4    \* lines of a session log under PROJECTS_DIR
MaxRebuilds == 2     \* rebuilds started in one behaviour

\* the session logs: <PROJECTS_DIR>/<dir>/<name>.jsonl
Sessions == <<[name |-> "sa", projectPath |-> "/p/one"],
              [name |-> "sb", projectPath |-> "/p/two"]>>

\* the records of a session log: a user prompt, a user prompt without the
\* optional uuid field, an assistant answer
RecordKinds == {"user", "user-bare", "assistant"}

Record(kind, session, i) ==
    LET l == IF kind = "assistant" THEN LineOf("assistant-string", i)
             ELSE LineOf("user-string", i)
    IN  [l EXCEPT !.sessionId = session,
                  !.uuid = IF kind = "user-bare" THEN Absent
                           ELSE session \o "-m" \o ToString(i)]

SessionLogs(session) ==
    UNION {{[i \in 1..n |-> Record(ks[i], session, i)] :
               ks \in [1..n -> RecordKinds]} : n \in 0..MaxFileLines}

\* the for loop of parseConversationFile from line k on
RECURSIVE ParseFrom(_, _, _, _)
ParseFrom(ls, k, cur, exs) ==
    IF k > Len(ls) THEN exs
    ELSE ParseFrom(ls, k + 1, ParseStep(cur, exs, ls[k]).currentUser,
                   ParseStep(cur, exs, ls[k]).exchanges)

\* the fields of an exchange that come from the file: project (basename of
\* the project path is kept as the path), projectPath, sessionPath, and the
\* session id when the record has none
Located(e, file) ==
    [id |-> e.id, userPrompt |-> e.userPrompt,
     assistantSummary |-> e.assistantSummary,
     projectPath |-> file.projectPath,
     sessionId |-> IF e.sessionId = Absent THEN file.name ELSE e.sessionId,
     sessionPath |-> file.projectPath \o "/" \o file.name \o ".jsonl",
     messageUuid |-> e.messageUuid]

\* parseConversationFile(filePath, projectPath), as a function of the file:
\* when readFileSync throws, the outer catch logs and exchanges is still []
parseConversationFile(file) ==
    IF ~file.readable THEN <<>>
    ELSE LET exs == ParseFrom(SelectSeq(file.lines, IsNonBlank), 1, NullMsg,
                              <<>>)
         IN  [n \in DOMAIN exs |-> Located(exs[n], file)]

\* for (... of scanConversationFiles()) allExchanges.push(...exchanges)
RECURSIVE ScanFrom(_, _)
ScanFrom(dir, k) ==
    IF k > Len(dir) THEN <<>>
    ELSE parseConversationFile(dir[k]) \o ScanFrom(dir, k + 1)

\* the text embedded for an exchange, and the item made of it
EmbeddingText(e) == <<e.projectPath, ": ">> \o e.userPrompt

Item(e) == [id |-> e.id, vector |-> EmbeddingText(e), metadata |-> e]

\* an index that appends every item it is given
upsertItem_insert(idx, item) == Append(idx, item)

\* idx.upsertItem(item): the item of the same id is replaced, a new id is
\* added
upsertItem(idx, item) ==
    IF \E n \in DOMAIN idx : idx[n].id = item.id
    THEN [n \in DOMAIN idx |-> IF idx[n].id = item.id THEN item ELSE idx[n]]
    ELSE Append(idx, item)

\* the session log of session k: its lines, and whether readFileSync can
\* read it
SessionFile(k, ls, readable) ==
    [name |-> Sessions[k].name, projectPath |-> Sessions[k].projectPath,
     lines |-> ls, readable |-> readable]

\* some session logs are in PROJECTS_DIR, no rebuild has run
InitRebuild ==
    /\ InitAgent
    /\ NoParse
    /\ projects \in {<<SessionFile(1, a, TRUE), SessionFile(2, b, TRUE)>> :
                        a \in SessionLogs(Sessions[1].name),
                        b \in SessionLogs(Sessions[2].name)}
    /\ convIndex = <<>>
    /\ rphase = "idle"
    /\ allExchanges = <<>>
    /\ upserted = 0
    /\ exchangeCount = -1
    /\ rebuilds = 0
    /\ completed = 0
    /\ firstIndex = <<>>
    /\ NoLocal
    /\ NoExpands
    /\ NoDecodes
    /\ NoHost
    /\ NoSearches

\* rebuildConversationIndex up to its first await: every file is parsed; with
\* no exchange at all it returns 0
RebuildScans ==
    /\ rphase \in {"idle", "done"}
    /\ rebuilds < MaxRebuilds
    /\ rebuilds' = rebuilds + 1
    /\ allExchanges' = ScanFrom(projects, 1)
    /\ upserted' = 0
    /\ IF ScanFrom(projects, 1) = <<>>
       THEN /\ rphase' = "done"
            /\ exchangeCount' = 0
            /\ completed' = completed + 1
            /\ firstIndex' = IF completed = 0 THEN convIndex ELSE firstIndex
       ELSE /\ rphase' = "embed"
            /\ exchangeCount' = -1
            /\ UNCHANGED <<completed, firstIndex>>
    /\ UNCHANGED <<projects, convIndex, outsideIndex>>

\* await embedBatch(texts), await getConversationIndex()
EmbedBatchOk ==
    /\ rphase = "embed"
    /\ rphase' = "index"
    /\ UNCHANGED <<projects, convIndex, allExchanges, upserted, exchangeCount,
                   rebuilds, completed, firstIndex, outsideIndex>>

\* embedBatch or getConversationIndex rejects: so does the rebuild
EmbedBatchFails ==
    /\ rphase = "embed"
    /\ rphase' = "done"
    /\ UNCHANGED <<projects, convIndex, allExchanges, upserted, exchangeCount,
                   rebuilds, completed, firstIndex, outsideIndex>>

\* one turn of the indexing loop
UpsertItem ==
    /\ rphase = "index"
    /\ upserted < Len(allExchanges)
    /\ convIndex' = upsertItem(convIndex, Item(allExchanges[upserted + 1]))
    /\ upserted' = upserted + 1
    /\ UNCHANGED <<projects, rphase, allExchanges, exchangeCount, rebuilds,
                   completed, firstIndex, outsideIndex>>

\* idx.upsertItem rejects: so does the rebuild, the items written so far stay
UpsertItemFails ==
    /\ rphase = "index"
    /\ upserted < Len(allExchanges)
    /\ rphase' = "done"
    /\ UNCHANGED <<projects, convIndex, allExchanges, upserted, exchangeCount,
                   rebuilds, completed, firstIndex, outsideIndex>>

\* return { exchangeCount: allExchanges.length }
RebuildReturns ==
    /\ rphase = "index"
    /\ upserted = Len(allExchanges)
    /\ rphase' = "done"
    /\ exchangeCount' = Len(allExchanges)
    /\ completed' = completed + 1
    /\ firstIndex' = IF completed = 0 THEN convIndex ELSE firstIndex
    /\ UNCHANGED <<projects, convIndex, allExchanges, upserted, rebuilds,
                   outsideIndex>>

NextRebuild ==
    \/ RebuildScans
    \/ EmbedBatchOk
    \/ EmbedBatchFails
    \/ UpsertItem
    \/ UpsertItemFails
    \/ RebuildReturns

\* the lines of a damaged session log: records and lines that are not JSON
DamagedKinds == {"user", "assistant", "malformed"}

DamagedLogs(session) ==
    UNION {{[i \in 1..n |->
                IF ks[i] = "malformed" THEN LineOf("malformed", i)
                ELSE Record(ks[i], session, i)] :
               ks \in [1..n -> DamagedKinds]} : n \in 0..MaxLines}

\* PROJECTS_DIR holds a session log with malformed lines and a second log
\* of one exchange; either file may be unreadable
InitDamaged ==
    /\ InitAgent
    /\ NoParse
    /\ projects \in {<<SessionFile(1, a, ra),
                       SessionFile(2, <<Record("user", Sessions[2].name, 1),
                                        Record("assistant", Sessions[2].name,
                                               2)>>, rb)>> :
                        a \in DamagedLogs(Sessions[1].name),
                        ra \in BOOLEAN, rb \in BOOLEAN}
    /\ convIndex = <<>>
    /\ rphase = "idle"
    /\ allExchanges = <<>>
    /\ upserted = 0
    /\ exchangeCount = -1
    /\ rebuilds = 0
    /\ completed = 0
    /\ firstIndex = <<>>
    /\ NoLocal
    /\ NoExpands
    /\ NoDecodes
    /\ NoHost
    /\ NoSearches


\* ===================================================== macrodata tool, remind
\* the arguments of a remind call; "" is an argument left out
ReminderIds == {"", "eod", "standup"}
CronExpressions == {"", "0 18 * * 1-5"}
Datetimes == {"", "2025-01-23T10:00:00"}
ReminderDescriptions == {"", "Wrap up", "Stand up"}
ReminderPayloads == {"", "Time to wrap up"}

\* loadSchedules: the parsed file, or an empty store when the file is not
\* there or cannot be read
loadSchedules == IF schedulesFile.kind = "store" THEN schedulesFile.schedules
                 ELSE <<>>

\* store.schedules.filter((s) => s.id !== id)
WithoutId(list, id) == SelectSeq(list, LAMBDA sch : sch.id # id)

\* a creation that pushes without filtering first
PutSchedule_push(list, sch) == Append(list, sch)

\* filter out the id, then push
PutSchedule(list, sch) == Append(WithoutId(list, sch.id), sch)

LocalSchedule(id, type, expression, description, payload) ==
    [id |-> id, type |-> type, expression |-> expression,
     description |-> description, payload |-> payload, createdAt |-> now]

Answer(success, text, id) == [success |-> success, text |-> text, id |-> id]

\* saveSchedules(store) and the answer that follows; when writeFileSync
\* throws, the catch of execute answers with the error and the file stays
SaveAndAnswer(list, answer, saved) ==
    IF saved
    THEN /\ schedulesFile' = StoreFile(list)
         /\ remindOut' = answer
    ELSE /\ schedulesFile' = schedulesFile
         /\ remindOut' = Answer(FALSE, <<"write failed">>, answer.id)

\* execute({mode: "remind", id, cronExpression, datetime, description,
\* payload}), the whole handler
Remind(id, cronExpression, datetime, description, payload, saved) ==
    /\ IF id = ""
       THEN /\ remindOut' = Answer(FALSE, <<"remind mode requires 'id'">>, id)
            /\ UNCHANGED schedulesFile
       ELSE IF cronExpression # "" /\ (description = "" \/ payload = "")
       THEN /\ remindOut' = Answer(FALSE,
                <<"Recurring reminder requires 'description' and 'payload'">>,
                id)
            /\ UNCHANGED schedulesFile
       ELSE IF cronExpression # ""
       THEN SaveAndAnswer(
                PutSchedule(loadSchedules,
                    LocalSchedule(id, "cron", cronExpression, description,
                                  payload)),
                Answer(TRUE, <<"Created recurring reminder: ", id>>, id),
                saved)
       ELSE IF datetime # "" /\ (description = "" \/ payload = "")
       THEN /\ remindOut' = Answer(FALSE,
                <<"One-shot reminder requires 'description' and 'payload'">>,
                id)
            /\ UNCHANGED schedulesFile
       ELSE IF datetime # ""
       THEN SaveAndAnswer(
                PutSchedule(loadSchedules,
                    LocalSchedule(id, "once", datetime, description, payload)),
                Answer(TRUE, <<"Scheduled one-shot reminder: ", id>>, id),
                saved)
       ELSE SaveAndAnswer(
                WithoutId(loadSchedules, id),
                IF Len(loadSchedules) > Len(WithoutId(loadSchedules, id))
                THEN Answer(TRUE, <<"Removed reminder: ", id>>, id)
                ELSE Answer(FALSE, <<"Reminder not found: ", id>>, id),
                saved)
    /\ UNCHANGED outsideLocal

\* the schedule file is not there, or is not JSON, when the tool first runs
InitLocal ==
    /\ InitAgent
    /\ NoParse
    /\ NoRebuild
    /\ NoSearches
    /\ NoExpands
    /\ NoDecodes
    /\ NoHost
    /\ schedulesFile \in {NoFile, CorruptFile}
    /\ remindOut = NoAnswer

NextLocal ==
    \E id \in ReminderIds, c \in CronExpressions, dt \in Datetimes,
       d \in ReminderDescriptions, p \in ReminderPayloads, saved \in BOOLEAN :
        Remind(id, c, dt, d, p, saved)


\* ======================================================= searchConversations
MaxItems == 3        \* items of the conversation index
MaxSearchLimit == 2  \* largest limit of a search

\* time is counted in hours (the code counts milliseconds)
Day == 24
SearchNow == 400 * Day

\* the age of an exchange when the search runs
Ages == {2 * Day, 200 * Day}

\* raw scores of queryItems, cosine similarities in hundredths
RawScores == {-50, 0, 80}

ProjectPaths == {Sessions[1].projectPath, Sessions[2].projectPath}

\* an item as a rebuild wrote it, age hours before the search
IndexedItem(n, projectPath, age) ==
    LET e == [id |-> "conv-s-m" \o ToString(n),
              userPrompt |-> <<"Fix the build">>,
              assistantSummary |-> <<"Done">>,
              projectPath |-> projectPath,
              timestamp |-> SearchNow - age,
              sessionId |-> "s", sessionPath |-> projectPath \o "/s.jsonl",
              messageUuid |-> "m" \o ToString(n)]
    IN  [id |-> e.id, vector |-> <<projectPath, ": ">> \o e.userPrompt,
         metadata |-> e]

\* getTimeWeight with the thresholds counted in (<= in place of <)
getTimeWeight_inclusive(timestamp, clock) ==
    LET age == clock - timestamp
    IN  IF age <= 7 * Day THEN 10
        ELSE IF age <= 30 * Day THEN 9
        ELSE IF age <= 90 * Day THEN 7
        ELSE IF age <= 365 * Day THEN 5
        ELSE 3

\* getTimeWeight, in tenths
getTimeWeight(timestamp, clock) ==
    LET age == clock - timestamp
    IN  IF age < 7 * Day THEN 10
        ELSE IF age < 30 * Day THEN 9
        ELSE IF age < 90 * Day THEN 7
        ELSE IF age < 365 * Day THEN 5
        ELSE 3

\* the result made of a candidate: adjustedScore = score * weight * boost,
\* in ten-thousandths (weight in tenths; boost 1.5 as 15 tenths)
SearchResult(r, currentProject, clock) ==
    [exchange |-> r.item.metadata,
     score |-> r.score,
     adjustedScore |->
         r.score * getTimeWeight(r.item.metadata.timestamp, clock)
                 * (IF currentProject # Absent
                       /\ r.item.metadata.projectPath = currentProject
                    THEN 15 ELSE 10)]

\* idx.queryItems(vector, topK): every answer of topK items (all of them
\* when there are fewer) in descending order of score
QueryItems(idx, scores, topK) ==
    LET k == Min(topK, Len(idx))
        hit(n) == [item |-> idx[n], score |-> scores[n]]
    IN  {[i \in 1..k |-> hit(p[i])] :
            p \in {q \in [1..k -> DOMAIN idx] :
                      /\ \A i, j \in 1..k : i # j => q[i] # q[j]
                      /\ \A i, j \in 1..k : i < j => scores[q[i]] >= scores[q[j]]
                      /\ \A n \in DOMAIN idx :
                            (\A i \in 1..k : q[i] # n)
                            => \A i \in 1..k : scores[q[i]] >= scores[n]}}

\* a stable sort, descending, by the raw score in place of the adjusted one
SortByAdjusted_byRaw(rs) ==
    LET place(i) ==
            1 + Cardinality({j \in DOMAIN rs :
                    \/ rs[j].score > rs[i].score
                    \/ rs[j].score = rs[i].score /\ j < i})
    IN  [p \in DOMAIN rs |-> rs[CHOOSE i \in DOMAIN rs : place(i) = p]]

\* Array.prototype.sort((a, b) => b.adjustedScore - a.adjustedScore): a
\* stable sort, descending
SortByAdjusted(rs) ==
    LET place(i) ==
            1 + Cardinality({j \in DOMAIN rs :
                    \/ rs[j].adjustedScore > rs[i].adjustedScore
                    \/ rs[j].adjustedScore = rs[i].adjustedScore /\ j < i})
    IN  [p \in DOMAIN rs |-> rs[CHOOSE i \in DOMAIN rs : place(i) = p]]

\* the index holds some exchanges, and the query has a score for each
InitSearch ==
    /\ InitAgent
    /\ NoParse
    /\ NoLocal
    /\ NoExpands
    /\ NoDecodes
    /\ NoHost
    /\ projects = <<>>
    /\ \E n \in 0..MaxItems :
          /\ convIndex \in {[i \in 1..n |-> IndexedItem(i, ps[i], as[i])] :
                               ps \in [1..n -> ProjectPaths],
                               as \in [1..n -> Ages]}
          /\ similarity \in [1..n -> RawScores]
    /\ rphase = "idle"
    /\ allExchanges = <<>>
    /\ upserted = 0
    /\ exchangeCount = -1
    /\ rebuilds = 0
    /\ completed = 0
    /\ firstIndex = <<>>
    /\ candidates = <<>>
    /\ searchArgs = NoSearch
    /\ searchOut = <<>>

\* searchConversations(query, {currentProject, limit, projectOnly})
SearchConversations(currentProject, limit, projectOnly) ==
    /\ searchArgs' = [currentProject |-> currentProject, limit |-> limit,
                      projectOnly |-> projectOnly]
    /\ IF Len(convIndex) = 0
       THEN /\ candidates' = <<>>
            /\ searchOut' = <<>>
       ELSE \E results \in QueryItems(convIndex, similarity, limit * 3) :
            \E searchResults \in
                    {[i \in DOMAIN results |->
                         SearchResult(results[i], currentProject, SearchNow)]} :
            \E filtered \in
                    {IF projectOnly /\ currentProject # Absent
                     THEN SelectSeq(searchResults,
                              LAMBDA r : r.exchange.projectPath = currentProject)
                     ELSE searchResults} :
            \E sorted \in {SortByAdjusted(filtered)} :
                /\ candidates' = results
                /\ searchOut' = SubSeq(sorted, 1, Min(limit, Len(sorted)))
    /\ UNCHANGED <<similarity, outsideSearch>>

NextSearch ==
    \E cp \in ProjectPaths \cup {Absent}, limit \in 1..MaxSearchLimit,
       po \in BOOLEAN : SearchConversations(cp, limit, po)

MaxRanked == 4  \* items of an index larger than the candidates of a search

\* raw scores that the time weight and the boost can put in another order
RankedScores == {-50, 60, 80}

\* the place of an item's project, age and score among all combinations
ItemKind(item, score) ==
    (score + 100) * 100000
    + (SearchNow - item.metadata.timestamp) * 2
    + (IF item.metadata.projectPath = Sessions[1].projectPath THEN 0 ELSE 1)

\* the index holds up to MaxRanked exchanges. queryItems orders the items by
\* score whatever their order in the index, so every combination of items
\* is drawn in one order only
InitRank ==
    /\ InitAgent
    /\ NoParse
    /\ NoLocal
    /\ NoExpands
    /\ NoDecodes
    /\ NoHost
    /\ projects = <<>>
    /\ \E n \in 0..MaxRanked :
          /\ convIndex \in {[i \in 1..n |-> IndexedItem(i, ps[i], as[i])] :
                               ps \in [1..n -> ProjectPaths],
                               as \in [1..n -> Ages]}
          /\ similarity \in [1..n -> RankedScores]
          /\ \A i \in 1..(n - 1) :
                ItemKind(convIndex[i], similarity[i])
                    <= ItemKind(convIndex[i + 1], similarity[i + 1])
    /\ rphase = "idle"
    /\ allExchanges = <<>>
    /\ upserted = 0
    /\ exchangeCount = -1
    /\ rebuilds = 0
    /\ completed = 0
    /\ firstIndex = <<>>
    /\ candidates = <<>>
    /\ searchArgs = NoSearch
    /\ searchOut = <<>>

\* the first search of an index. A search leaves the index as it is, so every
\* later search runs from the state the first one ran from
NextRank ==
    /\ searchArgs = NoSearch
    /\ NextSearch

\* the thresholds of getTimeWeight, in days
WeightThresholds == {7, 30, 90, 365}

\* ages at, just under and just over every threshold of getTimeWeight, with
\* the youngest and the oldest age of the model
WeightAges ==
    {0, SearchNow}
    \cup {d * Day - 1 : d \in WeightThresholds}
    \cup {d * Day : d \in WeightThresholds}
    \cup {d * Day + 1 : d \in WeightThresholds}

\* the index holds one exchange, of an age around a threshold
InitWeight ==
    /\ InitAgent
    /\ NoParse
    /\ NoLocal
    /\ NoExpands
    /\ NoDecodes
    /\ NoHost
    /\ projects = <<>>
    /\ convIndex \in {<<IndexedItem(1, p, a)>> :
                          p \in ProjectPaths, a \in WeightAges}
    /\ similarity \in [1..1 -> RawScores]
    /\ rphase = "idle"
    /\ allExchanges = <<>>
    /\ upserted = 0
    /\ exchangeCount = -1
    /\ rebuilds = 0
    /\ completed = 0
    /\ firstIndex = <<>>
    /\ candidates = <<>>
    /\ searchArgs = NoSearch
    /\ searchOut = <<>>

\* ======================================================== expandConversation
MaxLogLines == 4     \* lines of the session log a conversation is read from
MaxWindow == 3       \* largest contextMessages

\* the kinds of line of the session log
ExpandKinds == {"user-string", "assistant-text-block", "user-empty",
                "malformed"}

ExpandLogs ==
    UNION {{[i \in 1..n |-> LineOf(ks[i], i)] : ks \in [1..n -> ExpandKinds]} :
           n \in 0..MaxLogLines}

\* the uuids asked for: the one of every line, and one no line has
MessageUuids == {"m" \o ToString(i) : i \in 0..MaxLogLines}

\* msg.message.content.map(b => b.text || "").join("")
RECURSIVE JoinBlocks(_)
JoinBlocks(blocks) ==
    IF blocks = <<>> THEN <<>>
    ELSE Head(blocks).text \o JoinBlocks(Tail(blocks))

\* the records pushed to messages: user and assistant records with content
IsMessage(l) ==
    /\ l.shape = "json"
    /\ l.type \in {"user", "assistant"}
    /\ Truthy(l.content)

MessageOf(l) ==
    [role |-> l.type,
     content |-> IF l.type = "assistant" THEN extractAssistantText(l.content)
                 ELSE IF l.content.kind = "string" THEN l.content.text
                 ELSE JoinBlocks(l.content.blocks),
     uuid |-> l.uuid]

\* const messages after the parsing loop
Messages(ls) ==
    LET kept == SelectSeq(SelectSeq(ls, IsNonBlank), IsMessage)
    IN  [i \in DOMAIN kept |-> MessageOf(kept[i])]

\* messages.findIndex(m => m.uuid === messageUuid), counted from 0
FindIndex(ms, uuid) ==
    IF \A i \in DOMAIN ms : ms[i].uuid # uuid THEN -1
    ELSE (CHOOSE i \in DOMAIN ms :
             /\ ms[i].uuid = uuid
             /\ \A j \in 1..(i - 1) : ms[j].uuid # uuid) - 1

Max(a, b) == IF a > b THEN a ELSE b

\* ms.slice(start, end), both counted from 0 and not negative
JsSlice(ms, start, end) == SubSeq(ms, start + 1, Min(end, Len(ms)))

\* ms.slice(-n): the last n, but slice(-0) is slice(0), the whole array
SliceLast(ms, n) ==
    IF n = 0 THEN ms ELSE JsSlice(ms, Max(Len(ms) - n, 0), Len(ms))

\* .map(({ uuid, ...rest }) => rest)
WithoutUuid(ms) ==
    [i \in DOMAIN ms |-> [role |-> ms[i].role, content |-> ms[i].content]]

\* a conversation is expanded from a session log that is there or not
InitExpand ==
    /\ InitAgent
    /\ NoParse
    /\ NoRebuild
    /\ NoLocal
    /\ NoSearches
    /\ NoDecodes
    /\ NoHost
    /\ sessionLog \in {NoLog} \cup {LogFile(ls) : ls \in ExpandLogs}
    /\ expandArgs = NoExpand
    /\ expandOut = NoExpandOut

\* expandConversation(sessionPath, messageUuid, contextMessages). project and
\* branch of the result, copied from the first user record, are left out
ExpandConversation(messageUuid, contextMessages) ==
    /\ expandArgs' = [messageUuid |-> messageUuid,
                      contextMessages |-> contextMessages]
    /\ IF sessionLog.kind = "absent"
       THEN expandOut' = [threw |-> TRUE, messages |-> <<>>]
       ELSE \E messages \in {Messages(sessionLog.lines)} :
            \E targetIdx \in {FindIndex(messages, messageUuid)} :
               IF targetIdx = -1
               THEN expandOut' =
                       [threw |-> FALSE,
                        messages |->
                            WithoutUuid(SliceLast(messages, contextMessages))]
               ELSE LET start == Max(0, targetIdx - (contextMessages \div 2))
                        end == Min(Len(messages), start + contextMessages)
                    IN  expandOut' =
                           [threw |-> FALSE,
                            messages |->
                                WithoutUuid(JsSlice(messages, start, end))]
    /\ UNCHANGED <<sessionLog, outsideExpand>>

NextExpand ==
    \E uuid \in MessageUuids, n \in 0..MaxWindow : ExpandConversation(uuid, n)

\* ========================================================= decodeProjectPath
MaxPathLen == 5      \* characters of a project path

\* the characters of a path, one string each
PathChars == {"/", "-", "a", "b"}

\* the absolute paths: a leading separator and no empty segment after it
AbsolutePaths ==
    {p \in UNION {[1..n -> PathChars] : n \in 1..MaxPathLen} :
        /\ p[1] = "/"
        /\ \A i \in 1..(Len(p) - 1) : ~(p[i] = "/" /\ p[i + 1] = "/")
        /\ Len(p) > 1 => p[Len(p)] # "/"}

\* the name of a project's directory under PROJECTS_DIR: its absolute path
\* with every separator replaced by "-"
EncodeProjectPath(p) == [i \in DOMAIN p |-> IF p[i] = "/" THEN "-" ELSE p[i]]

\* encoded.replace(/^-/, "/").replace(/-/g, "/")
decodeProjectPath(encoded) ==
    [i \in DOMAIN encoded |-> IF encoded[i] = "-" THEN "/" ELSE encoded[i]]

\* path.basename of a path with no trailing separator
Basename(p) ==
    LET seps == {i \in DOMAIN p : p[i] = "/"}
        last == IF seps = {} THEN 0
                ELSE CHOOSE i \in seps : \A j \in seps : j <= i
    IN  SubSeq(p, last + 1, Len(p))

getProjectName(p) == Basename(p)

\* a session of the project at absPath left its directory under PROJECTS_DIR
InitDecode ==
    /\ InitAgent
    /\ NoParse
    /\ NoRebuild
    /\ NoLocal
    /\ NoSearches
    /\ NoExpands
    /\ NoHost
    /\ absPath \in AbsolutePaths
    /\ projectDir = EncodeProjectPath(absPath)
    /\ decodedPath = NotDecoded
    /\ projectName = NotDecoded

\* scanConversationFiles comes to the directory, parseConversationFile names
\* the project of its exchanges
DecodeProjectDir ==
    /\ decodedPath = NotDecoded
    /\ decodedPath' = decodeProjectPath(projectDir)
    /\ projectName' = getProjectName(decodeProjectPath(projectDir))
    /\ UNCHANGED <<absPath, projectDir, agentVars, convVars, indexVars,
                   localVars, searchVars, expandVars, hostVars>>

NextDecode == DecodeProjectDir

UserIds == {"eod"}
Intents == {"null", "why"}

\* the inputs of the specification of the whole agent, where two calls of any
\* kind interleave; the clock stands still in it
AgentKeys == {<<"topic", "next-js">>}
AgentContents == {<<"Ship v2">>}
AgentIntents == {"null"}

Next ==
    \/ \E t \in Slots, k \in AgentKeys, c \in AgentContents :
          WriteState(t, k[1], k[2], c)
    \/ \E t \in Slots, tp \in Topics, c \in JournalContents,
          i \in AgentIntents : LogJournal(t, tp, c, i)
    \/ \E t \in Slots : EmbedOk(t)
    \/ \E t \in Slots : EmbedFail(t)
    \/ \E t \in Slots : UpsertOk(t)
    \/ \E t \in Slots : UpsertFail(t)
    \/ \E t \in Slots : Retire(t)
    \/ \E id \in UserIds, task \in TaskTypes, d \in Descriptions :
          nanoids < MaxSchedules /\ ScheduleRecurring(id, task, d)
    \/ \E id \in UserIds, task \in TaskTypes, d \in Descriptions :
          nanoids < MaxSchedules /\ ScheduleOnce(id, task, d)
    \/ \E id \in UserIds \cup {r.id : r \in schedules} : CancelSchedule(id)
    \/ \E t \in Slots, row \in schedules : Fire(t, row)
    \/ AlarmSettles
    \/ \E t \in Slots : threads[t].steps < MaxSteps /\ GenReadOnly(t)
    \/ \E t \in Slots, k \in AgentKeys, c \in AgentContents :
          threads[t].steps < MaxSteps /\ GenWriteState(t, k[1], k[2], c)
    \/ \E t \in Slots, tp \in Topics, c \in JournalContents :
          threads[t].steps < MaxSteps /\ GenLogJournal(t, tp, c)
    \/ \E t \in Slots, text \in ResultTexts : GenFinish(t, text)
    \/ \E t \in Slots, msg \in ErrorMessages : GenThrows(t, msg)

vars == <<agentVars, convVars, pluginVars>>

Init == InitAgent /\ NoParse /\ NoPlugin

Spec == Init /\ [][Next]_vars

\* write_state calls on every key, interleaved, with the clock running
NextState ==
    \/ Tick
    \/ \E t \in Slots, k \in Keys, c \in Contents : WriteState(t, k[1], k[2], c)
    \/ \E t \in Slots : EmbedOk(t)
    \/ \E t \in Slots : EmbedFail(t)
    \/ \E t \in Slots : UpsertOk(t)
    \/ \E t \in Slots : UpsertFail(t)
    \/ \E t \in Slots : Retire(t)

SpecState == Init /\ [][NextState]_vars

\* write_state calls whose primary write or whose vector sync can fail
NextWrites ==
    \/ \E t \in Slots, k \in Keys, c \in Contents : WriteState(t, k[1], k[2], c)
    \/ \E t \in Slots, k \in Keys : WriteStateSqlFails(t, k[1], k[2])
    \/ \E t \in Slots : EmbedOk(t)
    \/ \E t \in Slots : EmbedFail(t)
    \/ \E t \in Slots : UpsertOk(t)
    \/ \E t \in Slots : UpsertFail(t)
    \/ \E t \in Slots : Retire(t)

SpecWrites == Init /\ [][NextWrites]_vars

\* log_journal calls and getRecentJournal, interleaved, with the clock running
NextJournal ==
    \/ Tick
    \/ \E t \in Slots, tp \in Topics, c \in JournalContents, i \in Intents :
          LogJournal(t, tp, c, i)
    \/ \E t \in Slots : EmbedOk(t)
    \/ \E t \in Slots : EmbedFail(t)
    \/ \E t \in Slots : UpsertOk(t)
    \/ \E t \in Slots : UpsertFail(t)
    \/ \E t \in Slots : Retire(t)
    \/ \E n \in 1..MaxLimit : GetRecentJournal(n)

SpecJournal == Init /\ [][NextJournal]_vars

AllIdle == \A t \in Slots : IsIdle(t)

\* results of a generation as long as the cap of the summary, and longer
Chars(n) == [i \in 1..n |-> "x"]
LongTexts == {Chars(SummaryCap), Chars(SummaryCap + 1)}

\* the schedule tools, alarm() and the runs it starts, one call at a time
NextSchedule ==
    \/ /\ AllIdle
       /\ \/ \E id \in UserIds, task \in TaskTypes, d \in Descriptions :
                nanoids < MaxCreations /\ ScheduleRecurring(id, task, d)
          \/ \E id \in UserIds, task \in TaskTypes, d \in Descriptions :
                nanoids < MaxCreations /\ ScheduleOnce(id, task, d)
          \/ \E id \in UserIds \cup {r.id : r \in schedules} :
                CancelSchedule(id)
          \/ ListSchedules
          \/ \E row \in schedules : Fire(1, row)
    \/ AlarmSettles
    \/ EmbedOk(1)
    \/ EmbedFail(1)
    \/ UpsertOk(1)
    \/ UpsertFail(1)
    \/ Retire(1)
    \/ \E text \in ResultTexts \cup LongTexts : GenFinish(1, text)
    \/ \E msg \in ErrorMessages : GenThrows(1, msg)

SpecSchedule == Init /\ [][NextSchedule]_vars

\* refine calls and scheduled runs, one at a time, taking every round trip
\* their maxSteps allows
NextSteps ==
    \/ /\ AllIdle
       /\ \/ \E task \in TaskTypes : Refine(1, task)
          \/ \E id \in UserIds, task \in TaskTypes, d \in Descriptions :
                nanoids < MaxSchedules /\ ScheduleRecurring(id, task, d)
          \/ \E row \in schedules : Fire(1, row)
    \/ AlarmSettles
    \/ EmbedOk(1)
    \/ EmbedFail(1)
    \/ UpsertOk(1)
    \/ UpsertFail(1)
    \/ Retire(1)
    \/ GenReadOnly(1)
    \/ \E k \in AgentKeys, c \in AgentContents :
          GenWriteState(1, k[1], k[2], c)
    \/ \E tp \in Topics, c \in JournalContents : GenLogJournal(1, tp, c)
    \/ \E text \in ResultTexts : GenFinish(1, text)
    \/ \E msg \in ErrorMessages : GenThrows(1, msg)

SpecSteps == Init /\ [][NextSteps]_vars

\* the whole agent when a call starts only after the one before it is over;
\* the clock stands still
NextSerial ==
    \/ /\ AllIdle
       /\ \/ \E k \in Keys, c \in Contents : WriteState(1, k[1], k[2], c)
          \/ \E tp \in Topics, c \in JournalContents, i \in Intents :
                LogJournal(1, tp, c, i)
          \/ \E id \in UserIds, task \in TaskTypes, d \in Descriptions :
                nanoids < MaxSchedules /\ ScheduleRecurring(id, task, d)
          \/ \E row \in schedules : Fire(1, row)
    \/ AlarmSettles
    \/ EmbedOk(1)
    \/ EmbedFail(1)
    \/ UpsertOk(1)
    \/ UpsertFail(1)
    \/ Retire(1)
    \/ threads[1].steps < MaxSteps /\ GenReadOnly(1)
    \/ \E k \in Keys, c \in Contents :
          threads[1].steps < MaxSteps /\ GenWriteState(1, k[1], k[2], c)
    \/ \E tp \in Topics, c \in JournalContents :
          threads[1].steps < MaxSteps /\ GenLogJournal(1, tp, c)
    \/ \E text \in ResultTexts : GenFinish(1, text)
    \/ \E msg \in ErrorMessages : GenThrows(1, msg)

SpecSerial == Init /\ [][NextSerial]_vars

\* parseConversationFile on every log of at most MaxLines lines
SpecConv == InitConv /\ [][NextConv]_vars

\* rebuildConversationIndex, run again and again on the same session logs
SpecRebuild == InitRebuild /\ [][NextRebuild]_vars

\* remind calls on the local schedule file, one after the other
SpecLocal == InitLocal /\ [][NextLocal]_vars

\* searches of an index that does not change
SpecSearch == InitSearch /\ [][NextSearch]_vars

\* rebuilds over damaged and unreadable session logs
SpecDamaged == InitDamaged /\ [][NextRebuild]_vars

\* the project directories are decoded
SpecDecode == InitDecode /\ [][NextDecode]_vars

\* conversations expanded from one session log
SpecExpand == InitExpand /\ [][NextExpand]_vars

\* searches of an index that can hold more items than a search considers
SpecRank == InitRank /\ [][NextRank]_vars

\* searches of an index of one exchange, over the ages around the thresholds
SpecWeight == InitWeight /\ [][NextSearch]_vars

\* ------------------------------------- read_state and the external MCP tools
McpNames == {"github", "linear"}
ToolNames == {"search"}

\* what OAUTH_KV holds under user:<userId>:mcps: nothing, or the JSON of the
\* connected MCPs (here their names)
KvValues == {NoKey, [present |-> TRUE, mcps |-> <<>>],
             [present |-> TRUE, mcps |-> <<"github">>]}

\* getConnectedMcps: mcpsJson ? JSON.parse(mcpsJson) : []
getConnectedMcps(json) == IF json.present THEN json.mcps ELSE <<>>

\* mcps.find((m) => m.name === mcpName), as "was one found"
FindMcp(mcps, mcpName) == \E i \in DOMAIN mcps : mcps[i] = mcpName

\* what the remote server answers a POST /mcp with: fetch rejects, or it
\* resolves with a status, a body, and in a JSON body an error and a result
RemoteResponses ==
    { [fetch |-> "rejects", status |-> 0, body |-> "connection refused",
       error |-> Absent, items |-> <<>>],
      [fetch |-> "resolves", status |-> 500, body |-> "upstream down",
       error |-> Absent, items |-> <<>>],
      [fetch |-> "resolves", status |-> 404, body |-> "",
       error |-> Absent, items |-> <<>>],
      [fetch |-> "resolves", status |-> 200, body |-> "json",
       error |-> "rate limited", items |-> <<"partial">>],
      [fetch |-> "resolves", status |-> 200, body |-> "json",
       error |-> Absent, items |-> <<"found it">>],
      [fetch |-> "resolves", status |-> 204, body |-> "json",
       error |-> Absent, items |-> <<>>] }

\* response.ok
ResponseOk(r) == r.status >= 200 /\ r.status <= 299

Resolved(value) == [threw |-> FALSE, message |-> <<>>, value |-> value]
Rejected(message) == [threw |-> TRUE, message |-> message, value |-> <<>>]

\* fetchMcpTools: the error field of the body is not looked at
fetchMcpTools_ignoresError(r) ==
    IF r.fetch = "rejects" THEN Rejected(<<r.body>>)
    ELSE IF ~ResponseOk(r)
         THEN Rejected(<<"HTTP ", ToString(r.status), ": ", r.body>>)
    ELSE Resolved(r.items)

\* fetchMcpTools: throws on a non-2xx status and on an error field, returns
\* result.result?.tools ?? []
fetchMcpTools(r) ==
    IF r.fetch = "rejects" THEN Rejected(<<r.body>>)
    ELSE IF ~ResponseOk(r)
         THEN Rejected(<<"HTTP ", ToString(r.status), ": ", r.body>>)
    ELSE IF r.error # Absent THEN Rejected(<<r.error>>)
    ELSE Resolved(r.items)

\* callMcpTool: the same checks, then the text contents joined, or a fixed
\* text when there is none
callMcpTool(r) ==
    IF r.fetch = "rejects" THEN Rejected(<<r.body>>)
    ELSE IF ~ResponseOk(r)
         THEN Rejected(<<"HTTP ", ToString(r.status), ": ", r.body>>)
    ELSE IF r.error # Absent THEN Rejected(<<r.error>>)
    ELSE Resolved(IF r.items = <<>> THEN <<"Tool returned no text content.">>
                  ELSE r.items)

McpNotFound(mcpName) ==
    <<"MCP \"", mcpName,
      "\" not found. Use list_external_mcps to see available MCPs.">>

\* the read_state handler throws when there is no row
ReadStateResult_throws(type, name) ==
    IF getState(type, name) = NullRow
    THEN [threw |-> TRUE, text |-> <<>>]
    ELSE [threw |-> FALSE,
          text |-> <<"# ", name, "\n\n">> \o getState(type, name).content]

\* the read_state handler: a text either way
ReadStateResult(type, name) ==
    IF getState(type, name) = NullRow
    THEN [threw |-> FALSE,
          text |-> <<"State file not found: ", type, "/", name>>]
    ELSE [threw |-> FALSE,
          text |-> <<"# ", name, "\n\n">> \o getState(type, name).content]

\* the list_external_tools handler, once the registry is read
ListToolsResult(mcps, mcpName, r) ==
    IF ~FindMcp(mcps, mcpName)
    THEN [threw |-> FALSE, text |-> McpNotFound(mcpName)]
    ELSE IF fetchMcpTools(r).threw
    THEN [threw |-> FALSE,
          text |-> <<"Error fetching tools from ", mcpName, ": ">>
                   \o fetchMcpTools(r).message]
    ELSE IF fetchMcpTools(r).value = <<>>
    THEN [threw |-> FALSE,
          text |-> <<"No tools available from ", mcpName, ".">>]
    ELSE [threw |-> FALSE,
          text |-> <<"## Tools from ", mcpName, "\n\n">>
                   \o fetchMcpTools(r).value]

\* the call_external_tool handler, once the registry is read
CallToolResult(mcps, mcpName, toolName, r) ==
    IF ~FindMcp(mcps, mcpName)
    THEN [threw |-> FALSE, text |-> McpNotFound(mcpName)]
    ELSE IF callMcpTool(r).threw
    THEN [threw |-> FALSE,
          text |-> <<"Error calling ", toolName, " on ", mcpName, ": ">>
                   \o callMcpTool(r).message]
    ELSE [threw |-> FALSE, text |-> callMcpTool(r).value]

\* the read of OAUTH_KV is awaited outside the try block of either handler:
\* when it rejects, so does the handler
KvRejects(tool, target) ==
    [tool |-> tool, target |-> target, kv |-> "rejects", response |-> NoResponse,
     threw |-> TRUE, text |-> <<>>]

outsideExternal == <<agentVars, convVars, indexVars, localVars, searchVars,
                     expandVars, decodeVars, webVars, hookVars, daemonVars>>

ReadState(type, name) ==
    /\ extOut' = [tool |-> "read_state", target |-> <<type, name>>,
                  kv |-> "none", response |-> NoResponse,
                  threw |-> ReadStateResult(type, name).threw,
                  text |-> ReadStateResult(type, name).text]
    /\ UNCHANGED <<mcpsJson, outsideExternal>>

ListExternalTools(mcpName, kv, r) ==
    /\ extOut' =
         IF kv = "rejects" THEN KvRejects("list_external_tools", <<mcpName>>)
         ELSE [tool |-> "list_external_tools", target |-> <<mcpName>>,
               kv |-> kv, response |-> r,
               threw |-> ListToolsResult(getConnectedMcps(mcpsJson),
                                         mcpName, r).threw,
               text |-> ListToolsResult(getConnectedMcps(mcpsJson),
                                        mcpName, r).text]
    /\ UNCHANGED <<mcpsJson, outsideExternal>>

CallExternalTool(mcpName, toolName, kv, r) ==
    /\ extOut' =
         IF kv = "rejects"
         THEN KvRejects("call_external_tool", <<mcpName, toolName>>)
         ELSE [tool |-> "call_external_tool",
               target |-> <<mcpName, toolName>>,
               kv |-> kv, response |-> r,
               threw |-> CallToolResult(getConnectedMcps(mcpsJson),
                                        mcpName, toolName, r).threw,
               text |-> CallToolResult(getConnectedMcps(mcpsJson),
                                       mcpName, toolName, r).text]
    /\ UNCHANGED <<mcpsJson, outsideExternal>>

\* an agent whose user connected no MCP, or one
InitExternal ==
    /\ InitAgent
    /\ NoParse
    /\ NoRebuild
    /\ NoLocal
    /\ NoSearches
    /\ NoExpands
    /\ NoDecodes
    /\ NoWeb
    /\ NoHooks
    /\ NoDaemons
    /\ mcpsJson \in KvValues
    /\ extOut = NoCall

KvReads == {"resolves", "rejects"}

NextExternal ==
    \/ /\ AllIdle
       /\ \E k \in Keys, c \in Contents : WriteState(1, k[1], k[2], c)
    \/ EmbedOk(1)
    \/ EmbedFail(1)
    \/ UpsertOk(1)
    \/ UpsertFail(1)
    \/ Retire(1)
    \/ \E k \in Keys : ReadState(k[1], k[2])
    \/ \E m \in McpNames, kv \in KvReads, r \in RemoteResponses :
          ListExternalTools(m, kv, r)
    \/ \E m \in McpNames, tn \in ToolNames, kv \in KvReads,
          r \in RemoteResponses : CallExternalTool(m, tn, kv, r)

\* read_state and the external MCP tools, between write_state calls
SpecExternal == InitExternal /\ [][NextExternal]_vars

\* ------------------------------------- web_search, news_search, fetch_page
Urls == {"https://a.example/", "https://b.example/", "https://c.example/"}
SearchTools == {"web_search", "news_search"}

\* what searchWeb / searchNews resolve with (the urls of the results), or
\* that they throw
SearchOutcomes ==
    { [threw |-> t, urls |-> us] :
        t \in BOOLEAN,
        us \in {<<>>, <<"https://a.example/">>, <<"https://c.example/">>,
                <<"https://b.example/", "https://a.example/">>} }

\* what fetchPageAsMarkdown resolves with, or that it throws
PageOutcomes == {"short", "long", "throws"}

UrlNotAllowed ==
    <<"URL not allowed. URLs must come from search results. Use web_search first.">>

\* fetch_page without the check of the set
IsAllowed_any(url) == TRUE

\* this.allowedUrls.has(url)
IsAllowed(url) == url \in allowedUrls

outsideWeb == <<agentVars, convVars, indexVars, localVars, searchVars,
                expandVars, decodeVars, externalVars, hookVars, daemonVars>>

\* the handler of web_search and that of news_search: they differ in the
\* search they call and in their texts
WebSearch(tool, o) ==
    /\ IF ~webEnv.brave
       THEN /\ webOut' = [tool |-> tool, url |-> Absent,
                          text |-> <<"Error: BRAVE_SEARCH_API_KEY not configured">>]
            /\ UNCHANGED <<allowedUrls, returned>>
       ELSE IF o.threw
       THEN /\ webOut' = [tool |-> tool, url |-> Absent,
                          text |-> <<IF tool = "web_search"
                                     THEN "Search error: "
                                     ELSE "News search error: ",
                                     "search failed">>]
            /\ UNCHANGED <<allowedUrls, returned>>
       ELSE IF o.urls = <<>>
       THEN /\ webOut' = [tool |-> tool, url |-> Absent,
                          text |-> <<IF tool = "web_search"
                                     THEN "No results found for "
                                     ELSE "No news found for ">>]
            /\ UNCHANGED <<allowedUrls, returned>>
       ELSE /\ allowedUrls' = allowedUrls \cup Range(o.urls)
            /\ returned' = returned \cup Range(o.urls)
            /\ webOut' = [tool |-> tool, url |-> Absent, text |-> o.urls]
    /\ UNCHANGED <<fetched, webEnv, outsideWeb>>

FetchPage(url, page) ==
    /\ IF ~IsAllowed(url)
       THEN /\ webOut' = [tool |-> "fetch_page", url |-> url,
                          text |-> UrlNotAllowed]
            /\ UNCHANGED fetched
       ELSE IF ~webEnv.cf
       THEN /\ webOut' = [tool |-> "fetch_page", url |-> url,
                          text |-> <<"Error: CF_API_TOKEN or CF_ACCOUNT_ID not configured">>]
            /\ UNCHANGED fetched
       ELSE /\ fetched' = fetched \cup {url}
            /\ webOut' = [tool |-> "fetch_page", url |-> url,
                          text |-> CASE page = "throws" ->
                                          <<"Fetch error: ", "fetch failed">>
                                     [] page = "long" ->
                                          <<"markdown.slice(0, maxLength)",
                                            "\n\n[Content truncated...]">>
                                     [] page = "short" -> <<"markdown">>]
    /\ UNCHANGED <<allowedUrls, returned, webEnv, outsideWeb>>

\* a new agent instance under every configuration of its environment
InitWeb ==
    /\ InitAgent
    /\ NoParse
    /\ NoRebuild
    /\ NoLocal
    /\ NoSearches
    /\ NoExpands
    /\ NoDecodes
    /\ NoExternals
    /\ NoHooks
    /\ NoDaemons
    /\ allowedUrls = {}
    /\ returned = {}
    /\ fetched = {}
    /\ webOut = NoWebCall
    /\ webEnv \in [brave : BOOLEAN, cf : BOOLEAN]

NextWeb ==
    \/ \E tool \in SearchTools, o \in SearchOutcomes : WebSearch(tool, o)
    \/ \E url \in Urls, page \in PageOutcomes : FetchPage(url, page)

\* the web tools of one agent instance
SpecWeb == InitWeb /\ [][NextWeb]_vars

\* ------------------------------------------------- save_conversation_summary
Summaries == {<<"Shipped v2">>, <<"Planned v3">>}

\* id = `summary-${new Date().toISOString().slice(0, 10)}-${Date.now()}`
SummaryId(ms) == "summary-" \o "date" \o "-" \o ToString(ms)

\* the record the handler upserts: metadata {type: "summary", content, ...}
SummaryVector(id, content, ts) ==
    [id |-> id, type |-> "summary", name |-> Absent, topic |-> Absent,
     content |-> content, intent |-> Absent, stamp |-> ts]

\* the handler: embed the content, upsert the record, answer; neither await
\* is inside a try block, and no table is written
SaveConversationSummary(summary, stage) ==
    /\ stage \in {"none", "embed", "upsert"}
    /\ vectorize' =
         IF stage = "none"
         THEN VectorUpsert(vectorize,
                           SummaryVector(SummaryId(now), summary, now))
         ELSE vectorize
    /\ extOut' = [tool |-> "save_conversation_summary",
                  target |-> <<SummaryId(now)>>, kv |-> "none",
                  response |-> NoResponse, threw |-> stage # "none",
                  text |-> IF stage = "none"
                           THEN <<"Conversation summary saved.">>
                           ELSE <<>>]
    /\ UNCHANGED <<state_files, journal, schedVars, now, uuids, threads,
                   written, lastAppended, recent, recentN, recentFor,
                   toolVars, mcpsJson, convVars, indexVars, localVars,
                   searchVars, expandVars, decodeVars, webVars, hookVars,
                   daemonVars>>

NextSummary ==
    \/ Tick
    \/ /\ AllIdle
       /\ \/ \E k \in AgentKeys, c \in AgentContents :
                WriteState(1, k[1], k[2], c)
          \/ \E tp \in Topics, c \in JournalContents, i \in AgentIntents :
                LogJournal(1, tp, c, i)
          \/ \E sm \in Summaries, stage \in {"none", "embed", "upsert"} :
                SaveConversationSummary(sm, stage)
    \/ EmbedOk(1)
    \/ EmbedFail(1)
    \/ UpsertOk(1)
    \/ UpsertFail(1)
    \/ Retire(1)

\* the three tools that write to the vector index, one call at a time
SpecSummary == Init /\ [][NextSummary]_vars

\* --------------------------------------------- session logs that are removed
\* a session log is deleted from PROJECTS_DIR while no rebuild is running
RemoveLog(k) ==
    /\ rphase \in {"idle", "done"}
    /\ k \in DOMAIN projects
    /\ projects' = [n \in 1..(Len(projects) - 1) |->
                       IF n < k THEN projects[n] ELSE projects[n + 1]]
    /\ UNCHANGED <<convIndex, rphase, allExchanges, upserted, exchangeCount,
                   rebuilds, completed, firstIndex, outsideIndex>>

NextPrune ==
    \/ NextRebuild
    \/ \E k \in 1..Len(Sessions) : RemoveLog(k)

\* rebuilds of the index, session logs being removed between them
SpecPrune == InitRebuild /\ [][NextPrune]_vars

\* ---------------------------------------------------- inject_pending_context
MaxMessages == 2     \* messages written to the pending-context file
MaxHooks == 2        \* prompt-submit hooks that can run at once
MaxPrompts == 3      \* prompts that get an injection

HookIds == 1..MaxHooks

outsideHooks == <<agentVars, convVars, indexVars, localVars, searchVars,
                  expandVars, decodeVars, externalVars, webVars, daemonVars>>

\* the daemon has a reminder or a change notice for the next prompt: it
\* appends it to the file
DaemonAppends ==
    /\ notified < MaxMessages
    /\ notified' = notified + 1
    /\ pendingContext' = Append(pendingContext, notified + 1)
    /\ UNCHANGED <<hooks, injected, outsideHooks>>

\* macrodata-hook.sh prompt-submit comes to inject_pending_context
HookStarts(h) ==
    /\ hooks[h] = "idle"
    /\ Len(injected) < MaxPrompts
    /\ hooks' = [hooks EXCEPT ![h] = "test"]
    /\ UNCHANGED <<pendingContext, injected, notified, outsideHooks>>

\* [ -s "$PENDING_CONTEXT" ]: the file exists and is not empty
HookTests(h) ==
    /\ hooks[h] = "test"
    /\ hooks' = [hooks EXCEPT ![h] =
                    IF pendingContext # <<>> THEN "cat" ELSE "idle"]
    /\ UNCHANGED <<pendingContext, injected, notified, outsideHooks>>

\* cat "$PENDING_CONTEXT": what the file holds goes to the prompt
HookCats(h) ==
    /\ hooks[h] = "cat"
    /\ injected' = Append(injected, pendingContext)
    /\ hooks' = [hooks EXCEPT ![h] = "clear"]
    /\ UNCHANGED <<pendingContext, notified, outsideHooks>>

\* : > "$PENDING_CONTEXT"
Truncate(file) == <<>>

HookClears(h) ==
    /\ hooks[h] = "clear"
    /\ pendingContext' = Truncate(pendingContext)
    /\ hooks' = [hooks EXCEPT ![h] = "idle"]
    /\ UNCHANGED <<injected, notified, outsideHooks>>

InitHooks ==
    /\ InitAgent
    /\ NoParse
    /\ NoRebuild
    /\ NoLocal
    /\ NoSearches
    /\ NoExpands
    /\ NoDecodes
    /\ NoExternals
    /\ NoWeb
    /\ NoDaemons
    /\ pendingContext = <<>>
    /\ hooks = [h \in HookIds |-> "idle"]
    /\ injected = <<>>
    /\ notified = 0

NextHooks ==
    \/ DaemonAppends
    \/ \E h \in HookIds : HookStarts(h)
    \/ \E h \in HookIds : HookTests(h)
    \/ \E h \in HookIds : HookCats(h)
    \/ \E h \in HookIds : HookClears(h)

\* the pending-context file between the daemon and the hooks of the sessions
SpecHooks == InitHooks /\ [][NextHooks]_vars

\* --------------------------------------- start_daemon, ensureDaemonRunning
MaxSessions == 2     \* sessions on one state directory
MaxLaunches == 2     \* daemon processes launched

SessionIds == 1..MaxSessions
SessionKinds == {"hook", "plugin"}

outsideDaemons == <<agentVars, convVars, indexVars, localVars, searchVars,
                    expandVars, decodeVars, externalVars, webVars, hookVars>>

LivePids == {d.pid : d \in daemons}

\* is_daemon_running / the check of ensureDaemonRunning: the PID file
\* exists and kill -0 of the pid in it succeeds
is_daemon_running == pidFile # <<>> /\ pidFile[1] \in LivePids

\* if ! is_daemon_running
ShouldStart == ~is_daemon_running

\* a session comes to start_daemon (hook) or ensureDaemonRunning (plugin)
\* and checks the PID file
SessionChecks(s) ==
    /\ sessions[s].pc = "idle"
    /\ sessions' = [sessions EXCEPT ![s].pc =
                       IF ShouldStart THEN "launch" ELSE "done"]
    /\ UNCHANGED <<pidFile, daemons, pids, launchedOver, outsideDaemons>>

\* nohup bun run "$DAEMON" & (hook), spawn("bun", ["run", daemonScript])
\* (plugin): a new daemon process runs
SessionLaunches(s) ==
    /\ sessions[s].pc = "launch"
    /\ pids < MaxLaunches
    /\ pids' = pids + 1
    /\ daemons' = daemons \cup {[pid |-> pids + 1, wrote |-> FALSE]}
    /\ launchedOver' = IF is_daemon_running
                       THEN launchedOver \cup {pids + 1}
                       ELSE launchedOver
    /\ sessions' = [sessions EXCEPT
                       ![s].pc = IF sessions[s].kind = "hook"
                                 THEN "write" ELSE "done",
                       ![s].child = pids + 1]
    /\ UNCHANGED <<pidFile, outsideDaemons>>

\* echo $! > "$PIDFILE"
HookWritesPid(s) ==
    /\ sessions[s].pc = "write"
    /\ pidFile' = <<sessions[s].child>>
    /\ sessions' = [sessions EXCEPT ![s].pc = "done"]
    /\ UNCHANGED <<daemons, pids, launchedOver, outsideDaemons>>

\* the hook or the plugin load is over; the next prompt runs the hook again
SessionEnds(s) ==
    /\ sessions[s].pc = "done"
    /\ sessions' = [sessions EXCEPT ![s].pc = "idle"]
    /\ UNCHANGED <<pidFile, daemons, pids, launchedOver, outsideDaemons>>

\* the daemon writes its own PID file
DaemonWritesPid(d) ==
    /\ d \in daemons
    /\ ~d.wrote
    /\ pidFile' = <<d.pid>>
    /\ daemons' = (daemons \ {d}) \cup {[d EXCEPT !.wrote = TRUE]}
    /\ UNCHANGED <<sessions, pids, launchedOver, outsideDaemons>>

\* a daemon process ends (it is killed, it crashes, it gives up); it may
\* remove the PID file that names it
DaemonExits(d, cleans) ==
    /\ d \in daemons
    /\ daemons' = daemons \ {d}
    /\ pidFile' = IF cleans /\ pidFile = <<d.pid>> THEN <<>> ELSE pidFile
    /\ UNCHANGED <<sessions, pids, launchedOver, outsideDaemons>>

InitDaemon ==
    /\ InitAgent
    /\ NoParse
    /\ NoRebuild
    /\ NoLocal
    /\ NoSearches
    /\ NoExpands
    /\ NoDecodes
    /\ NoExternals
    /\ NoWeb
    /\ NoHooks
    /\ pidFile = <<>>
    /\ daemons = {}
    /\ sessions \in [SessionIds -> {[kind |-> k, pc |-> "idle", child |-> 0] :
                                       k \in SessionKinds}]
    /\ pids = 0
    /\ launchedOver = {}

NextDaemon ==
    \/ \E s \in SessionIds : SessionChecks(s)
    \/ \E s \in SessionIds : SessionLaunches(s)
    \/ \E s \in SessionIds : HookWritesPid(s)
    \/ \E s \in SessionIds : SessionEnds(s)
    \/ \E d \in daemons : DaemonWritesPid(d)
    \/ \E d \in daemons, cleans \in BOOLEAN : DaemonExits(d, cleans)

\* sessions that start on one state directory, and the daemons they launch
SpecDaemon == InitDaemon /\ [][NextDaemon]_vars

\* ===================================================================== claims
Contains(text, atom) == \E i \in DOMAIN text : text[i] = atom

\* C1: after any sequence of saveState calls the store holds at most one row
\* per (type, name), and getState of a pair returns the content of the latest
\* write to it (and nothing for a pair never written).
C1_UpsertByTypeName ==
    \A k \in Keys :
        /\ Cardinality(SelectState(k[1], k[2])) <= 1
        /\ written[k] # <<>> => getState(k[1], k[2]).content = written[k]
        /\ written[k] = <<>> => SelectState(k[1], k[2]) = {}

\* a pair written twice with different contents (the index still has the
\* first), beside a row of the other name
C1_Witness ==
    /\ Cardinality(state_files) = 2
    /\ \E r \in state_files, v \in vectorize :
          r.id = v.id /\ r.content # v.content

\* C2: when the embedding call or the vector upsert of a saveState or
\* saveJournal fails, the row the call wrote is still in the primary store and
\* the call rejects: its caller gets the error, and an MCP tool handler, which
\* does not catch, ends with it.
C2_FailedSyncKeepsRowAndThrows ==
    \A t \in Slots :
        threads[t].sv.fail # "none" =>
            /\ threads[t].sv.res = "throw"
            /\ \/ \E r \in state_files : r.id = threads[t].sv.id
               \/ \E r \in journal : r.id = threads[t].sv.id
            /\ (threads[t].op \in {"write_state", "log_journal"}
                    /\ threads[t].pc = "done") => threads[t].out = "throw"

\* a write_state whose upsert failed and a log_journal whose embedding failed
C2_Witness ==
    \E t, u \in Slots :
        /\ threads[t].op = "write_state" /\ threads[t].pc = "done"
        /\ threads[t].sv.fail = "upsert"
        /\ threads[u].op = "log_journal" /\ threads[u].pc = "done"
        /\ threads[u].sv.fail = "embed"

\* C3: whenever the generation loop of a scheduled task throws, the journal
\* has an entry with topic scheduled-<taskType>-error whose content contains
\* the error message.
C3_GenerationErrorIsJournalled ==
    \A t \in Slots :
        (threads[t].op = "run" /\ threads[t].genmsg # Absent) =>
            \E r \in journal :
                /\ r.topic = "scheduled-" \o threads[t].data.task \o "-error"
                /\ Contains(r.content, threads[t].genmsg)

\* a run whose generation loop threw and which is over
C3_Witness ==
    \E t \in Slots :
        /\ threads[t].op = "run" /\ threads[t].pc = "done"
        /\ threads[t].genmsg \in ErrorMessages

\* C4: runScheduledTask never propagates an error to the scheduler: whatever
\* fails inside a run (generation loop, embedding call, vector upsert), the
\* call returns normally.
C4_RunReturnsNormally ==
    \A t \in Slots :
        (threads[t].op = "run" /\ threads[t].pc = "done") =>
            threads[t].out = "ok"

\* C5: no step of a runScheduledTask call, from its start to its end and
\* through every tool call of its generation loop, changes the schedule table.
C5_RunLeavesSchedules ==
    [][\A t \in Slots :
          (threads'[t] # threads[t]
              /\ (threads[t].op = "run" \/ threads'[t].op = "run"))
          => schedules' = schedules]_vars

\* a run that wrote state and failed, over, with its schedule in the table
C5_Witness ==
    \E t \in Slots :
        /\ threads[t].op = "run" /\ threads[t].pc = "done"
        /\ threads[t].out = "throw"
        /\ state_files # {}
        /\ \E r \in schedules : r.payload = threads[t].data

\* C6: no step updates or deletes a journal row: every row of the journal,
\* with its id, topic, content, intent and timestamp, is a row of the journal
\* after the step, so the journal only grows.
C6_JournalAppendOnly == [][journal \subseteq journal']_vars

\* two rows in the journal, one by a tool and one by a run
C6_Witness ==
    \E r, q \in journal : r.topic = "git" /\ q.topic = "scheduled-reflect"

\* C7: right after an entry is appended, getRecentJournal(1) returns exactly
\* that entry.
C7_RecentOneIsLastAppended ==
    (recentN = 1 /\ recentFor # Absent) =>
        (Len(recent) = 1 /\ recent[1].id = recentFor)

\* the index record of id carries the content of the stored entity of that id
VectorHolds(index, files, rows, id) ==
    \E v \in index :
        /\ v.id = id
        /\ \/ \E r \in files : r.id = id /\ r.content = v.content
           \/ \E r \in rows : r.id = id /\ r.content = v.content

\* C8: when calls run one at a time, the step in which a saveState or
\* saveJournal completes without a failure leaves in the vector index a record
\* with the id of the written entity and the entity's stored content.
C8_SerialSaveMirrors ==
    [][\A t \in Slots :
          (threads[t].pc = "upsert" /\ threads'[t].sv.res = "ok"
              /\ threads'[t].sv.id = threads[t].rec.id)
          => VectorHolds(vectorize', state_files', journal',
                         threads[t].rec.id)]_vars

\* a state document overwritten and mirrored, and a mirrored journal entry
C8_Witness ==
    /\ \E r \in state_files, v \in vectorize :
          r.id = v.id /\ r.content = v.content /\ r.content = <<"Ship v3">>
    /\ \E r \in journal : VectorHolds(vectorize, state_files, journal, r.id)
    /\ AllIdle

\* a user record and an assistant record, as the log has them: a JSON line of
\* that type with message content
IsUserRecord(l) == l.shape = "json" /\ l.type = "user" /\ Truthy(l.content)
IsAssistantRecord(l) ==
    l.shape = "json" /\ l.type = "assistant" /\ Truthy(l.content)
HasUserText(l) == IsUserRecord(l) /\ l.content.kind = "string"
HasAssistantText(l) ==
    /\ IsAssistantRecord(l)
    /\ \/ l.content.kind = "string"
       \/ \E b \in Range(l.content.blocks) : b.type = "text" /\ b.text # <<>>

\* the user record pending when line j is read: the latest one before j with
\* no assistant record after it; 0 when there is none
PendingAt(j) ==
    LET us == {i \in 1..(j - 1) :
                  /\ IsUserRecord(lines[i])
                  /\ \A k \in (i + 1)..(j - 1) : ~IsAssistantRecord(lines[k])}
    IN  IF us = {} THEN 0 ELSE CHOOSE i \in us : \A k \in us : k <= i

\* exchange e pairs the user record at line i with the assistant record at j
Pairs(e, i, j) ==
    /\ e.messageUuid = lines[i].uuid
    /\ e.userPrompt = TextOf(lines[i].n)
    /\ e.assistantSummary = TextOf(lines[j].n)

\* C10: for every log, parseConversationFile emits exchanges only as (pending
\* user record, next assistant record) pairs, at most one per assistant record:
\* a user record followed by another user record before any assistant record
\* is in no exchange, and an assistant record that finds no pending user record
\* yields none.  For records with text, [user A, user B, assistant X] yields
\* exactly (B, X) and [user A, assistant X, assistant Y] exactly (A, X).
C10_PairsPendingWithNextAssistant ==
    phase \in {"loop", "done"} =>
        /\ \A n \in DOMAIN exchanges :
              \E j \in 1..(pos - 1) :
                  /\ IsAssistantRecord(lines[j])
                  /\ PendingAt(j) # 0
                  /\ Pairs(exchanges[n], PendingAt(j), j)
        /\ \A n, m \in DOMAIN exchanges :
              n < m => /\ exchanges[n].assistantSummary
                            # exchanges[m].assistantSummary
                       /\ exchanges[n].messageUuid # exchanges[m].messageUuid
        /\ \A i, k \in 1..(pos - 1) :
              (i < k /\ IsUserRecord(lines[i]) /\ IsUserRecord(lines[k])
                  /\ \A j \in (i + 1)..(k - 1) : ~IsAssistantRecord(lines[j]))
              => \A n \in DOMAIN exchanges :
                    exchanges[n].messageUuid # lines[i].uuid
        /\ \A j \in 1..(pos - 1) :
              (IsAssistantRecord(lines[j]) /\ PendingAt(j) = 0)
              => \A n \in DOMAIN exchanges :
                    exchanges[n].assistantSummary # TextOf(lines[j].n)
        /\ (pos = 4 /\ Len(lines) = 3 /\ HasUserText(lines[1])
                /\ HasUserText(lines[2]) /\ HasAssistantText(lines[3]))
              => (Len(exchanges) = 1 /\ Pairs(exchanges[1], 2, 3))
        /\ (pos = 4 /\ Len(lines) = 3 /\ HasUserText(lines[1])
                /\ HasAssistantText(lines[2]) /\ HasAssistantText(lines[3]))
              => (Len(exchanges) = 1 /\ Pairs(exchanges[1], 1, 2))

\* [user A, user B, assistant X] parsed to the end, with its one exchange
C10_Witness ==
    /\ phase = "done" /\ pos = 4 /\ Len(lines) = 3
    /\ HasUserText(lines[1]) /\ HasUserText(lines[2])
    /\ HasAssistantText(lines[3])
    /\ Len(exchanges) = 1

\* C9: operations of one owner never interleave: while a call is suspended
\* on an external call no other call is in progress.
C9_OneCallAtATime ==
    Cardinality({t \in Slots : threads[t].op # "idle"
                                  /\ threads[t].pc # "done"}) <= 1

\* C11: every assistant record read while a user record is pending emits one
\* exchange and clears the pending pointer, so a file parsed to its end has
\* as many exchanges as it has such assistant records.
C11_OneExchangePerPendingAssistant ==
    /\ [][(phase = "loop" /\ pos <= Len(lines)
             /\ IsAssistantRecord(lines[pos]) /\ currentUser # NullMsg)
          => (Len(exchanges') = Len(exchanges) + 1
                 /\ currentUser' = NullMsg)]_vars
    /\ [](phase = "done" /\ lines # <<>> =>
             Len(exchanges) = Cardinality({j \in DOMAIN lines :
                 IsAssistantRecord(lines[j]) /\ PendingAt(j) # 0}))

\* the ids of the items of an index
IndexIds(idx) == {idx[n].id : n \in DOMAIN idx}

\* C12: once a rebuild has returned, running rebuilds again on the same logs
\* keeps the set of ids of the index and its number of items, and no id is
\* ever in the index twice.
C12_RebuildIdempotent ==
    /\ \A n, m \in DOMAIN convIndex :
          convIndex[n].id = convIndex[m].id => n = m
    /\ completed >= 1 =>
          /\ IndexIds(convIndex) = IndexIds(firstIndex)
          /\ Len(convIndex) = Len(firstIndex)

\* two rebuilds have returned, the index holds exchanges of both sessions
C12_Witness ==
    /\ completed = 2
    /\ \E n, m \in DOMAIN convIndex :
          convIndex[n].metadata.sessionId # convIndex[m].metadata.sessionId

\* C13: two exchanges parsed from the logs (two user messages, or two
\* sessions) never have the same id, and the exchangeCount a rebuild returns
\* is the number of items it put in the index.
C13_ExchangeIdsUnique ==
    /\ \A n, m \in DOMAIN allExchanges :
          n # m => allExchanges[n].id # allExchanges[m].id
    /\ (rphase = "done" /\ completed = 1 /\ rebuilds = 1) =>
          exchangeCount = Len(convIndex)

\* C14: the schedule table holds at most one schedule per user-chosen id (a
\* creation under an id in use replaces the schedule), and list_schedules
\* shows every schedule under its user-chosen id.
C14_OneSchedulePerUserId ==
    /\ \A r, q \in schedules : r.payload.id = q.payload.id => r = q
    /\ \A e \in listed.entries : e.id \in UserIds

\* C16: cancel_schedule never raises, and for an id that is not in the table
\* it answers not-found, not the text of a cancellation, and leaves the table
\* as it was; for an id in the table it removes the schedule.
C16_CancelReportsNotFound ==
    /\ [](cancelOut # NoCancel =>
             /\ ~cancelOut.threw
             /\ ~cancelOut.found => cancelOut.text[1] # "Cancelled schedule: ")
    /\ [][cancelOut' # cancelOut =>
             /\ ~cancelOut'.found => schedules' = schedules
             /\ \A r \in schedules' : r.id # cancelOut'.id]_vars

\* the number of times alarm() has called back the row of this id
Firings(id) == Cardinality({n \in DOMAIN fired : fired[n].id = id})

C15_LocalIdsUnique ==
    /\ [](\A n, m \in DOMAIN loadSchedules :
             loadSchedules[n].id = loadSchedules[m].id => n = m)
    /\ [][remindOut'.text # <<>> =>
           LET id == remindOut'.id
               before == loadSchedules
               after == IF schedulesFile'.kind = "store"
                        THEN schedulesFile'.schedules ELSE <<>>
               others(list) == SelectSeq(list, LAMBDA sch : sch.id # id)
               has(list) == \E n \in DOMAIN list : list[n].id = id
           IN  /\ others(after) = others(before)
               /\ remindOut'.text[1] \in {"Created recurring reminder: ",
                                         "Scheduled one-shot reminder: "}
                     => has(after)
               /\ remindOut'.text[1] = "Removed reminder: "
                     => (has(before) /\ ~has(after))
               /\ remindOut'.text[1] = "Reminder not found: "
                     => (~has(before) /\ after = before)
               /\ (remindOut'.text[1] \in {"Removed reminder: ",
                                          "Reminder not found: "}
                      /\ ~has(before))
                     => remindOut'.text[1] = "Reminder not found: "]_vars

\* a one-shot reminder in the store, and the latest call was the removal of
\* an id that is not there
C15_Witness ==
    /\ Len(loadSchedules) = 1
    /\ loadSchedules[1].id = "eod" /\ loadSchedules[1].type = "once"
    /\ remindOut.text = <<"Reminder not found: ", "standup">>

\* C18: a task takes at most maxSteps round trips, 10 in a refine call and 15
\* in a scheduled run; the loop that reaches the bound returns its text as a
\* normal result (the refine tool answers with it, the run journals its
\* completion), the only errors out of a loop are the provider's and the
\* tools', and every turn of the loop adds a round trip or ends the loop.
C18_StepLimit ==
    /\ [](\A t \in Slots :
             /\ threads[t].steps <= threads[t].maxSteps
             /\ threads[t].op = "refine" => threads[t].maxSteps = 10
             /\ threads[t].op = "run" => threads[t].maxSteps = 15
             /\ threads[t].stop = "limit" =>
                   /\ threads[t].steps = threads[t].maxSteps
                   /\ threads[t].genmsg = Absent
                   /\ threads[t].op = "refine" =>
                         /\ threads[t].out = "ok"
                         /\ threads[t].text[1] = "## Refinement: "
                   /\ threads[t].op = "run" =>
                         \E r \in journal :
                             r.topic = "scheduled-" \o threads[t].data.task
             /\ threads[t].stop = "error" =>
                   threads[t].genmsg \in
                       ErrorMessages \cup {EmbeddingError, UpsertError})
    /\ [][\A t \in Slots :
             (threads[t].pc = "gen" /\ threads'[t] # threads[t]) =>
                 \/ threads'[t].steps > threads[t].steps
                 \/ threads'[t].pc # "gen"]_vars

\* a scheduled run that took its 15 round trips and ended normally
C18_Witness ==
    \E t \in Slots :
        /\ threads[t].op = "run" /\ threads[t].pc = "done"
        /\ threads[t].stop = "limit" /\ threads[t].steps = 15
        /\ threads[t].out = "ok"

\* C19: the step in which the generation loop of a scheduled run returns
\* normally appends one journal entry, with topic scheduled-<taskType> and,
\* after the "Summary: " heading, the first 500 characters of the result
\* (all of it when it is shorter).
C19_CompletionIsJournalled ==
    [][\A t \in Slots :
          (threads[t].op = "run" /\ threads[t].stop = "none"
              /\ threads'[t].stop \in {"finish", "limit"}) =>
          \E r \in journal' :
              LET result == threads'[t].text
                  summary == SubSeq(r.content, 4, Len(r.content))
              IN  /\ journal' = journal \cup {r} /\ r \notin journal
                  /\ r.topic = "scheduled-" \o threads[t].data.task
                  /\ r.content[3] = "\n\nSummary: "
                  /\ Len(summary) <= 500
                  /\ Len(summary) = Len(result) \/ Len(summary) = 500
                  /\ summary = SubSeq(result, 1, Len(summary))]_vars

\* the completion entry of a run whose result had 501 characters
C19_Witness ==
    \E t \in Slots, r \in journal :
        /\ threads[t].op = "run" /\ threads[t].stop = "finish"
        /\ Len(threads[t].text) = 501
        /\ r.topic = "scheduled-reflect" /\ Len(r.content) = 503

\* C20: of two results with the same raw score and the same project, one
\* dated 2 days ago and one dated 200 days ago, the search ranks the one of
\* 2 days ago first, and it never returns the older one without it.
C20_RecentRanksAboveOld ==
    \A i \in DOMAIN searchOut :
        \A c \in DOMAIN candidates :
            LET old == searchOut[i]
                new == SearchResult(candidates[c], searchArgs.currentProject,
                                    SearchNow)
            IN  (/\ old.score = new.score
                 /\ old.exchange.projectPath = new.exchange.projectPath
                 /\ old.exchange.timestamp = SearchNow - 200 * Day
                 /\ new.exchange.timestamp = SearchNow - 2 * Day)
                => \E j \in 1..(i - 1) : searchOut[j] = new

\* C21: of two results with the same raw score and the same age, one of the
\* caller's current project and one of another project, the search ranks the
\* one of the current project first, and it never returns the other one
\* without it.
C21_CurrentProjectRanksAbove ==
    \A i \in DOMAIN searchOut :
        \A c \in DOMAIN candidates :
            LET other == searchOut[i]
                mine == SearchResult(candidates[c], searchArgs.currentProject,
                                     SearchNow)
            IN  (/\ searchArgs.currentProject # Absent
                 /\ other.score = mine.score
                 /\ other.exchange.timestamp = mine.exchange.timestamp
                 /\ mine.exchange.projectPath = searchArgs.currentProject
                 /\ other.exchange.projectPath # searchArgs.currentProject)
                => \E j \in 1..(i - 1) : searchOut[j] = mine

\* the step function of age, in tenths, with every threshold belonging to
\* the higher weight (inclusive) or to the lower one
StepWeight(age, inclusive) ==
    LET within(d) == IF inclusive THEN age <= d * Day ELSE age < d * Day
    IN  CASE within(7) -> 10
          [] ~within(7) /\ within(30) -> 9
          [] ~within(30) /\ within(90) -> 7
          [] ~within(90) /\ within(365) -> 5
          [] ~within(365) -> 3

\* every result's adjustedScore is its raw score times the step weight of its
\* age times the boost
WeighedBy(inclusive) ==
    \A i \in DOMAIN searchOut :
        LET r == searchOut[i]
        IN  r.adjustedScore =
                r.score
                * StepWeight(SearchNow - r.exchange.timestamp, inclusive)
                * (IF searchArgs.currentProject # Absent
                      /\ r.exchange.projectPath = searchArgs.currentProject
                   THEN 15 ELSE 10)

\* C22 as stated: the weight of an exchange is 1.0 up to 7 days of age, 0.9
\* up to 30, 0.7 up to 90, 0.5 up to 365 and 0.3 beyond, an age of exactly 7,
\* 30, 90 or 365 days having the higher weight.
C22_BoundaryHasHigherWeight == WeighedBy(TRUE)

\* C22 amended: the weight of an exchange is 1.0 under 7 days of age, 0.9
\* under 30, 0.7 under 90, 0.5 under 365 and 0.3 from 365 days on, an age of
\* exactly 7, 30, 90 or 365 days having the lower weight.
C22_BoundaryHasLowerWeight == WeighedBy(FALSE)

\* an exchange aged exactly 7 days with raw score 0.8 was returned with
\* adjusted score 0.72
C22_Witness ==
    /\ Len(searchOut) = 1
    /\ searchArgs.currentProject = Absent
    /\ searchOut[1].exchange.timestamp = SearchNow - 7 * Day
    /\ searchOut[1].score = 80
    /\ searchOut[1].adjustedScore = 7200

\* the adjusted score the ranking gives a raw score, in ten-thousandths
Adjusted(score, exchange) ==
    score * StepWeight(SearchNow - exchange.timestamp, FALSE)
          * (IF searchArgs.currentProject # Absent
                /\ exchange.projectPath = searchArgs.currentProject
             THEN 15 ELSE 10)

\* the candidates a search ranks: all of them, or those of the current
\* project when projectOnly filters
Ranked ==
    {c \in DOMAIN candidates :
        (searchArgs.projectOnly /\ searchArgs.currentProject # Absent)
        => candidates[c].item.metadata.projectPath = searchArgs.currentProject}

\* candidate c comes before candidate d in the ranking
Outranks(c, d) ==
    LET ac == Adjusted(candidates[c].score, candidates[c].item.metadata)
        ad == Adjusted(candidates[d].score, candidates[d].item.metadata)
    IN  ac > ad \/ (ac = ad /\ c < d)

\* the candidates are min(3 x limit, size of the index) different items of
\* the index with their raw scores, none of them with a lower raw score than
\* an item left out
CandidatesAreTopRaw ==
    /\ Len(candidates) = Min(3 * searchArgs.limit, Len(convIndex))
    /\ \A c \in DOMAIN candidates :
          \E n \in DOMAIN convIndex :
              /\ candidates[c].item = convIndex[n]
              /\ candidates[c].score = similarity[n]
    /\ \A c, d \in DOMAIN candidates :
          c # d => candidates[c].item.id # candidates[d].item.id
    /\ \A n \in DOMAIN convIndex :
          (\A c \in DOMAIN candidates : candidates[c].item.id # convIndex[n].id)
          => \A c \in DOMAIN candidates : candidates[c].score >= similarity[n]

\* C23: a search returns at most limit results, in descending order of
\* adjustedScore = raw score x time weight x (1.5 for the current project,
\* else 1.0); they are the limit highest-adjusted ones of the candidates it
\* ranks (all of them when these are fewer), exact ties in candidate order,
\* and the candidates are the 3 x limit items of highest raw similarity.
C23_TopLimitOfCandidates ==
    searchArgs # NoSearch =>
        /\ Len(searchOut) = Min(searchArgs.limit, Cardinality(Ranked))
        /\ CandidatesAreTopRaw
        /\ \A i \in DOMAIN searchOut :
              searchOut[i].adjustedScore
                  = Adjusted(searchOut[i].score, searchOut[i].exchange)
        /\ \A i, j \in DOMAIN searchOut :
              i < j => searchOut[i].adjustedScore >= searchOut[j].adjustedScore
        /\ \E f \in [DOMAIN searchOut -> Ranked] :
              /\ \A i \in DOMAIN searchOut :
                    /\ searchOut[i].exchange = candidates[f[i]].item.metadata
                    /\ searchOut[i].score = candidates[f[i]].score
              /\ \A i, j \in DOMAIN searchOut : i < j => Outranks(f[i], f[j])
              /\ \A c \in Ranked :
                    (\A i \in DOMAIN searchOut : f[i] # c)
                    => \A i \in DOMAIN searchOut : Outranks(f[i], c)

\* a search with limit 1 of an index of 4 items considered 3 of them and
\* returned one that is not the candidate of highest raw score
C23_Witness ==
    /\ Len(convIndex) = 4
    /\ searchArgs.limit = 1
    /\ Len(candidates) = 3
    /\ Len(searchOut) = 1
    /\ searchOut[1].score < candidates[1].score
    /\ searchOut[1].score > 0

\* C24: whenever a search asks for projectOnly, every result it returns is
\* of the caller's current project.
C24_ProjectOnlyResults ==
    searchArgs.projectOnly =>
        \A i \in DOMAIN searchOut :
            searchOut[i].exchange.projectPath = searchArgs.currentProject

\* the messages of the session log, none when the file is gone
LogMessages == Messages(sessionLog.lines)

\* the place of the message asked for among the messages, 0 when it is not
\* there
TargetPlace == FindIndex(LogMessages, expandArgs.messageUuid) + 1

\* C25: when the uuid is the one of a message of the log, the result is a run
\* of consecutive messages of the log that holds the target and has
\* contextMessages messages, or all of them when the log has fewer.
C25_WindowAroundTarget ==
    (/\ expandArgs # NoExpand
     /\ expandArgs.contextMessages >= 1
     /\ TargetPlace >= 1)
    => /\ ~expandOut.threw
       /\ Len(expandOut.messages)
              = Min(expandArgs.contextMessages, Len(LogMessages))
       /\ \E a \in 0..Len(LogMessages) :
             /\ a < TargetPlace
             /\ TargetPlace <= a + Len(expandOut.messages)
             /\ expandOut.messages
                    = WithoutUuid(SubSeq(LogMessages, a + 1,
                                         a + Len(expandOut.messages)))

\* C26: when the uuid is not the one of a message of the log, the log having
\* been pruned or not, the call does not throw and returns the last
\* contextMessages messages of the log, or all of them when it has fewer.
C26_LastMessagesWhenNotFound ==
    (/\ expandArgs # NoExpand
     /\ expandArgs.contextMessages >= 1
     /\ TargetPlace = 0)
    => /\ ~expandOut.threw
       /\ \E k \in {Min(expandArgs.contextMessages, Len(LogMessages))} :
             expandOut.messages
                 = WithoutUuid(SubSeq(LogMessages, Len(LogMessages) - k + 1,
                                      Len(LogMessages)))

\* C27: the path decoded from a project's directory name is the absolute path
\* of the project, and the project name is the last segment of that path.
C27_DecodeInvertsEncode ==
    decodedPath # NotDecoded =>
        /\ decodedPath = absPath
        /\ projectName = Basename(absPath)

\* a session log as it is without its malformed lines; an unreadable one as
\* an empty log
WellFormed(file) ==
    [file EXCEPT !.readable = TRUE,
                 !.lines = IF file.readable
                           THEN SelectSeq(file.lines,
                                          LAMBDA l : l.shape # "garbage")
                           ELSE <<>>]

\* C28: the exchanges a rebuild collects are those of the same logs with the
\* malformed lines taken out and the unreadable files empty: a malformed
\* line neither ends the parsing of its file nor touches the pending user
\* message, and an unreadable file does not end the rebuild.
C28_MalformedLinesAreSkipped ==
    rphase # "idle" =>
        allExchanges
            = ScanFrom([k \in DOMAIN projects |-> WellFormed(projects[k])], 1)

\* a rebuild returned the one exchange of a log whose user and assistant
\* records have a malformed line between them, the other log being unreadable
C28_Witness ==
    /\ rphase = "done"
    /\ exchangeCount = 1
    /\ Len(convIndex) = 1
    /\ projects[1].readable
    /\ Len(projects[1].lines) = 3
    /\ projects[1].lines[1].type = "user"
    /\ projects[1].lines[2].shape = "garbage"
    /\ projects[1].lines[3].type = "assistant"
    /\ ~projects[2].readable

\* C29: the error of a save whose embedding or vector upsert failed after the
\* row was written is of another kind than the error of a save whose primary
\* write failed.
C29_DesyncIsItsOwnKind ==
    \A t, u \in Slots :
        (/\ threads[t].sv.fail \in {"embed", "upsert"}
         /\ threads[u].sv.fail = "sql")
        => threads[t].sv.error.name # threads[u].sv.error.name

\* C30: a write_state or log_journal call whose vector sync failed ends with
\* a text result, not with the error.
C30_HandlerReturnsText ==
    \A t \in Slots :
        (/\ threads[t].op \in {"write_state", "log_journal"}
         /\ threads[t].pc = "done"
         /\ threads[t].sv.fail \in {"embed", "upsert"})
        => threads[t].out = "ok"

\* C31: a refine call whose generation loop threw ends with a text result
\* that carries the error, and the journal holds an entry that records the
\* error.
C31_RefineErrorIsJournalled ==
    \A t \in Slots :
        (/\ threads[t].op = "refine"
         /\ threads[t].pc = "done"
         /\ threads[t].stop = "error")
        => /\ threads[t].out = "ok"
           /\ threads[t].text = <<"Refinement error: ", threads[t].genmsg>>
           /\ \E r \in journal : Contains(r.content, threads[t].genmsg)

\* C32: read_state on a (type, name) with no document, and list_external_tools
\* or call_external_tool on a name no connected MCP carries (the registry
\* having been read), return the not-found text, throw nothing, and leave the
\* primary store, the vector index, the schedules and the registry as they were.
C32_MissingTargetIsText ==
    [][extOut' # extOut =>
        /\ (/\ extOut'.tool = "read_state"
            /\ getState(extOut'.target[1], extOut'.target[2]) = NullRow)
           => /\ extOut'.threw = FALSE
              /\ extOut'.text = <<"State file not found: ", extOut'.target[1],
                                  "/", extOut'.target[2]>>
        /\ (/\ extOut'.tool \in {"list_external_tools", "call_external_tool"}
            /\ extOut'.kv = "resolves"
            /\ ~FindMcp(getConnectedMcps(mcpsJson), extOut'.target[1]))
           => /\ extOut'.threw = FALSE
              /\ extOut'.text = McpNotFound(extOut'.target[1])
        /\ UNCHANGED <<state_files, journal, vectorize, schedules, mcpsJson>>
    ]_vars

C32_Witness ==
    /\ extOut.tool = "read_state"
    /\ extOut.target = <<"topic", "nextjs">>
    /\ extOut.text = <<"State file not found: ", "topic", "/", "nextjs">>
    /\ \E r \in state_files : r.name = "next-js"
    /\ mcpsJson.mcps = <<"github">>

\* the message the remote side gave: the body of a non-2xx response, or the
\* message of the error field
RemoteMessage(r) == IF ResponseOk(r) THEN r.error ELSE r.body

RemoteFailed(r) ==
    /\ r.fetch = "resolves"
    /\ ~ResponseOk(r) \/ r.error # Absent

\* C33: when the request of list_external_tools or call_external_tool to a
\* connected MCP gets a non-2xx status or a body with an error field, the
\* handler throws nothing and returns the error text of that tool, which
\* carries the remote message; it is never the listing or the tool's result.
C33_RemoteFailureIsErrorText ==
    (/\ extOut.tool \in {"list_external_tools", "call_external_tool"}
     /\ extOut.kv = "resolves"
     /\ FindMcp(getConnectedMcps(mcpsJson), extOut.target[1])
     /\ RemoteFailed(extOut.response))
    => /\ extOut.threw = FALSE
       /\ extOut.text[1] = IF extOut.tool = "list_external_tools"
                           THEN "Error fetching tools from "
                           ELSE "Error calling "
       /\ Contains(extOut.text, extOut.target[1])
       /\ extOut.text[Len(extOut.text)] = RemoteMessage(extOut.response)
       /\ \A i \in DOMAIN extOut.response.items :
             ~Contains(extOut.text, extOut.response.items[i])

C33_Witness ==
    /\ extOut.tool = "list_external_tools"
    /\ extOut.target = <<"github">>
    /\ extOut.response.status = 200
    /\ extOut.response.error = "rate limited"
    /\ extOut.text = <<"Error fetching tools from ", "github", ": ",
                       "rate limited">>

C35_IndexIsProjection ==
    \A v \in vectorize : \E r \in state_files \cup journal : r.id = v.id

\* C36: when two write_state calls on the same (type, name) have both
\* returned successfully and no other call is in progress, the vector record
\* of that id carries the content of the stored document, which is the
\* content of the call that came later.
C36_ConcurrentSavesConverge ==
    \A t1, t2 \in Slots :
        (/\ t1 # t2
         /\ \A t \in {t1, t2} :
               /\ threads[t].op = "write_state"
               /\ threads[t].pc = "done"
               /\ threads[t].out = "ok"
         /\ threads[t1].rec.id = threads[t2].rec.id
         /\ \A t \in Slots \ {t1, t2} : IsIdle(t))
        => \E v \in vectorize, r \in state_files :
              /\ v.id = threads[t1].rec.id
              /\ r.id = threads[t1].rec.id
              /\ r.content = written[<<r.type, r.name>>]
              /\ v.content = r.content

\* the outcome entries of the runs of a task type
OutcomeEntries(task) ==
    {r \in journal : r.topic \in {"scheduled-" \o task,
                                  "scheduled-" \o task \o "-error"}}

\* C37: when the first scheduled run of the agent is over, the journal holds
\* exactly one outcome entry of its task type: the completion entry or the
\* error entry, not both and not none.
C37_OneOutcomeEntryPerRun ==
    \A t \in Slots :
        (/\ threads[t].op = "run"
         /\ threads[t].pc = "done"
         /\ Len(fired) = 1)
        => Cardinality(OutcomeEntries(threads[t].data.task)) = 1

\* the ids of the exchanges the session logs hold now
ParsedIds(dir) ==
    {ScanFrom(dir, 1)[n].id : n \in DOMAIN ScanFrom(dir, 1)}

\* C38: in the step in which rebuildConversationIndex returns, the ids of
\* the conversation index are the ids of the exchanges parsed from the
\* session logs as they are then; no item of a removed log is left.
C38_RebuildIsFromScratch ==
    [][completed' = completed + 1
       => IndexIds(convIndex') = ParsedIds(projects')]_vars

\* the number of prompts message m was injected into
Deliveries(m) ==
    Cardinality({n \in DOMAIN injected : m \in Range(injected[n])})

\* C39: no message written to the pending-context file is injected into
\* more than one prompt, and a message not injected yet is still in the file.
C39_EachMessageInjectedOnce ==
    \A m \in 1..notified :
        /\ Deliveries(m) <= 1
        /\ Deliveries(m) = 0 => m \in Range(pendingContext)

\* C40: at most one daemon process is alive, no daemon was launched while
\* the PID file named a live process, and when a daemon is alive and no
\* session is in the middle of starting one, the PID file names it.
C40_OneDaemon ==
    /\ Cardinality(daemons) <= 1
    /\ launchedOver = {}
    /\ (/\ daemons # {}
        /\ \A s \in SessionIds : sessions[s].pc \in {"idle", "done"}
        /\ \A d \in daemons : d.wrote)
       => is_daemon_running
====
